---- MODULE Spec2Model ----
(***************************************************************************)
(* Capture pairing protocol of the attendance AI service:                  *)
(*   app/capture.py     token store (capture_sessions) and its endpoints   *)
(*   app/ws_manager.py  ConnectionManager (active_connections)             *)
(*   app/main.py        mark_attendance and its capture notification       *)
(*                                                                         *)
(* Time is the value datetime.utcnow() returns; every handler reads the    *)
(* clock once per utcnow() call of its code, and the clock may advance     *)
(* between two reads of one handler.  Tokens are uuid4 values: start       *)
(* always issues a token never issued before.  Each websocket connection   *)
(* attempt gets a handle never used before.                                *)
(***************************************************************************)
EXTENDS Integers, Sequences, FiniteSets, TLC

\* ---------------------------------------------------------------- bounds
MaxTokens   == 1    \* tokens start may issue
MaxHandles  == 2    \* websocket connection attempts
MaxMsgs     == 1    \* messages pushed through the manager
MaxLate     == 1    \* seconds by which the late clock instant exceeds the
                    \*   TTL, and between two clock readings of one handler
MaxStudents == 1    \* identities mark_attendance may recognise

\* ------------------------------------------------------------- constants
SESSION_TTL == 3600

\* fields the class MarkAttendanceRequest declares
MarkAttendanceRequestFields == {"image", "session"}

None == "None"      \* Python's None where a string is expected
NoToken  == 0       \* no token: None as request.capture_token
NoHandle == 0       \* no websocket: handlers without a connection

Tokens   == 1..MaxTokens
Handles  == 1..MaxHandles
Students == 1..MaxStudents
Payloads == {"classX"}

\* clock instants: the start, a full TTL later, and beyond that.  A session
\* made at one of them has age 0, MaxLate, SESSION_TTL or SESSION_TTL +
\* MaxLate at a later one: both sides of the expiry boundary.
Instants == {0, SESSION_TTL, SESSION_TTL + MaxLate}

VARIABLES
    now,                 \* last value returned by datetime.utcnow()
    capture_sessions,    \* token -> [session_info, created_at]
    active_connections,  \* token -> handle (ConnectionManager)
    conn,                \* handle -> [token, state] of each websocket and
                         \*   its handler: new, accepting (suspended in
                         \*   accept), open (in the receive loop), closed
    inbox,               \* handle -> messages sent to it with send_json
    issued,              \* issued[t]: created_at of token t when start made it
    nextHandle,          \* handles 1..nextHandle-1 have been used
    nextMsg,             \* messages 1..nextMsg-1 have been pushed
    firebase_service,    \* None until startup_event sets it
    attendance,          \* students marked present in the document store
    ended,               \* tokens for which end returned "ended"
    dropped,             \* messages pushed while nobody was attached
    last,                \* the last handler run and what it returned
    settings,            \* app.config.settings, as configured at start-up
    embeddings,          \* FaceRecognizer.embeddings: id -> enrolled vector
    session_cache,       \* FaceRecognizer.session_cache: session -> id -> vector
    disk,                \* settings.EMBEDDINGS_DIR: id -> pickled record
    students,            \* the class roster get_students_by_class returns
    call                 \* the last call of a FaceRecognizer method and
                         \*   what it returned

\* the state of the pairing service and of the attendance endpoint
serviceVars == <<now, capture_sessions, active_connections, conn, inbox,
                 issued, nextHandle, nextMsg, firebase_service, attendance,
                 ended, dropped, last>>

\* the state of the face recognizer
recognizerVars ==
    <<settings, embeddings, session_cache, disk, students, call>>

vars == <<serviceVars, recognizerVars>>

\* What a handler returned: op names the handler, result its outcome, at
\* the clock reading of its liveness check (of its end, if it makes none).
\* Fields a handler does not use hold None.
Ret(op, token, handle, result, at) ==
    [op |-> op, token |-> token, handle |-> handle, result |-> result,
     push |-> "not_called", expires_in |-> -1, info |-> None, at |-> at]

\* ------------------------------------------------------- helper operators
Remove(f, k) == [x \in (DOMAIN f) \ {k} |-> f[x]]

Put(f, k, v) == [x \in (DOMAIN f) \cup {k} |-> IF x = k THEN v ELSE f[x]]

Max(a, b) == IF a >= b THEN a ELSE b

\* the age test with the boundary on the wrong side
Expired_inclusive(created_at, n) == n - created_at >= SESSION_TTL

\* (now - data["created_at"]).total_seconds() > SESSION_TTL
Expired(created_at, n) == n - created_at > SESSION_TTL

\* a sweep that removes nothing, leaving expiry to the lookup of each token
cleanup_sessions_lazy(cs, n) == cs

\* _cleanup_sessions: pops every session expired at clock reading n
cleanup_sessions(cs, n) ==
    [t \in {x \in DOMAIN cs : ~Expired(cs[x].created_at, n)} |-> cs[t]]

\* a lookup that answers None for an expired session and leaves it stored
get_capture_session_not_evicting(cs, token, n1, n2) ==
    IF token \notin DOMAIN cs
    THEN [sessions |-> cs, found |-> FALSE]
    ELSE [sessions |-> cs, found |-> ~Expired(cs[token].created_at, n2)]

\* a lookup that renews the session it finds
get_capture_session_renewing(cs, token, n1, n2) ==
    LET swept == cleanup_sessions(cs, n1) IN
    IF token \notin DOMAIN swept
    THEN [sessions |-> swept, found |-> FALSE]
    ELSE IF Expired(swept[token].created_at, n2)
         THEN [sessions |-> Remove(swept, token), found |-> FALSE]
         ELSE [sessions |-> [swept EXCEPT ![token].created_at = n2],
               found |-> TRUE]

\* _get_capture_session: sweep at reading n1, then the age check of the
\* looked-up token at reading n2, evicting it when expired.  found = FALSE
\* is the None result; when found, the session is sessions[token].
get_capture_session(cs, token, n1, n2) ==
    LET swept == cleanup_sessions(cs, n1) IN
    IF token \notin DOMAIN swept
    THEN [sessions |-> swept, found |-> FALSE]
    ELSE IF Expired(swept[token].created_at, n2)
         THEN [sessions |-> Remove(swept, token), found |-> FALSE]
         ELSE [sessions |-> swept, found |-> TRUE]

\* ConnectionManager.connect, after accept: last writer wins
connect(ac, websocket, token) == Put(ac, token, websocket)

\* the connection registered for a token, if any
Registered(ac, token) == IF token \in DOMAIN ac THEN ac[token] ELSE NoHandle

\* a disconnect that forgets to remove the entry
disconnect_keeps(ac, token) == ac

\* ConnectionManager.disconnect
disconnect(ac, token) == IF token \in DOMAIN ac THEN Remove(ac, token) ELSE ac

\* a send that goes to the connection of the first token of the registry
send_message_to_first(ac, ib, message, token, ok) ==
    IF token \in DOMAIN ac
    THEN IF ok
         THEN [inbox |-> [ib EXCEPT
                  ![ac[CHOOSE t \in DOMAIN ac :
                         \A u \in DOMAIN ac : t <= u]] = Append(@, message)],
               ret |-> None, raised |-> FALSE]
         ELSE [inbox |-> ib, ret |-> None, raised |-> TRUE]
    ELSE [inbox |-> ib, ret |-> None, raised |-> FALSE]

\* a send that reaches every open connection that listens on the token
send_message_to_all(ac, ib, message, token, ok) ==
    IF token \in DOMAIN ac
    THEN IF ok
         THEN [inbox |-> [h \in DOMAIN ib |->
                            IF conn[h].state = "open" /\ conn[h].token = token
                            THEN Append(ib[h], message) ELSE ib[h]],
               ret |-> None, raised |-> FALSE]
         ELSE [inbox |-> ib, ret |-> None, raised |-> TRUE]
    ELSE [inbox |-> ib, ret |-> None, raised |-> FALSE]

\* ConnectionManager.send_message: send_json to the registered connection,
\* if any.  ok = FALSE is send_json raising.  The method has no return
\* statement: it returns None whether or not a connection was registered.
send_message(ac, ib, message, token, ok) ==
    IF token \in DOMAIN ac
    THEN IF ok
         THEN [inbox |-> [ib EXCEPT ![ac[token]] = Append(@, message)],
               ret |-> None, raised |-> FALSE]
         ELSE [inbox |-> ib, ret |-> None, raised |-> TRUE]
    ELSE [inbox |-> ib, ret |-> None, raised |-> FALSE]

\* a websocket whose handler has returned: closed, its token forgotten
Closed == [token |-> NoToken, state |-> "closed"]

\* clock readings that may follow reading n within one handler
Later(n) == {m \in Instants : n <= m /\ m - n <= MaxLate}

\* clock readings of one handler: non-decreasing, not before now.  Time
\* passing between two handlers shows as a first reading later than now.
Reads2(n1, n2) == /\ n1 \in Instants /\ n2 \in Instants
                  /\ now <= n1 /\ n1 <= n2 /\ n2 - n1 <= MaxLate

\* send_json can only raise where it is called
CanRaise(cs, ac, token, n1, n2, ok) ==
    ~ok => (get_capture_session(cs, token, n1, n2).found /\ token \in DOMAIN ac)

\* ------------------------------------------------------ the face recognizer
\* Embeddings are integer vectors; distances, thresholds and confidences
\* are in hundredths (0.45 is 45).

\* settings.RECOGNITION_THRESHOLD as shipped
RECOGNITION_THRESHOLD == 45

NoEmbedding == << >>    \* None where an embedding is expected

\* embeddings of norm 100.  Their cosine distances to ProbeFace are 0.30,
\* 0.45, 0.46, 1.00 and 1.60.
ProbeFace == <<100, 0, 0, 0, 0>>

Face30 == <<70, 70, 10, 10, 0>>

Face45 == <<55, 83, 9, 2, 1>>

Face46 == <<54, 82, 18, 6, 0>>

Face50 == <<50, 86, 10, 2, 0>>

Face100 == <<0, 100, 0, 0, 0>>

Face160 == <<-60, 80, 0, 0, 0>>

RosterFaces == {Face30, Face45, Face46, Face50, Face100, Face160}

\* np.dot
RECURSIVE dot_from(_, _, _)
dot_from(a, b, i) ==
    IF i > Len(a) THEN 0 ELSE a[i] * b[i] + dot_from(a, b, i + 1)

dot(a, b) == dot_from(a, b, 1)

\* np.linalg.norm, rounded down to an integer
RECURSIVE sqrt_from(_, _, _)
sqrt_from(n, r, b) ==
    IF b = 0 THEN r
    ELSE sqrt_from(n, IF (r + b) * (r + b) <= n THEN r + b ELSE r, b \div 2)

norm(a) == sqrt_from(dot(a, a), 0, 128)

\* FaceRecognizer.compute_cosine_distance: 1 - dot/(norm*norm), between 0
\* and 2
compute_cosine_distance(embedding1, embedding2) ==
    100 - (100 * dot(embedding1, embedding2))
             \div (norm(embedding1) * norm(embedding2))

\* what DeepFace.represent does with an image under one strategy: it raises,
\* or returns a list of embedding objects (possibly empty)
Raises == [raised |-> TRUE, objs |-> << >>]

Nothing == [raised |-> FALSE, objs |-> << >>]

Found(embedding) == [raised |-> FALSE, objs |-> <<embedding>>]

\* an image: whether _base64_to_image decodes it, and what each of the three
\* strategies of extract_embedding finds in it
Undecodable == [decodable |-> FALSE, detect |-> <<Raises, Raises, Raises>>]

NoFace == [decodable |-> TRUE, detect |-> <<Raises, Nothing, Raises>>]

Photo(embedding) ==
    [decodable |-> TRUE,
     detect |-> <<Found(embedding), Found(embedding), Found(embedding)>>]

\* student.get('image') of a student document without an image
NoImage == [decodable |-> FALSE, detect |-> << >>]

\* an extraction that runs every strategy and keeps the last success
extract_embedding_last_success(image_input) ==
    LET Success(k) == /\ ~image_input.detect[k].raised
                      /\ Len(image_input.detect[k].objs) > 0
    IN IF Success(3)
       THEN [embedding |-> image_input.detect[3].objs[1], tried |-> 3]
       ELSE IF Success(2)
       THEN [embedding |-> image_input.detect[2].objs[1], tried |-> 3]
       ELSE IF Success(1)
       THEN [embedding |-> image_input.detect[1].objs[1], tried |-> 3]
       ELSE [embedding |-> NoEmbedding, tried |-> 3]

\* FaceRecognizer.extract_embedding: opencv strict, retinaface strict, opencv
\* relaxed; the first strategy that neither raises nor returns an empty list
\* gives the embedding.  tried counts the strategies invoked.
extract_embedding(image_input) ==
    LET Success(k) == /\ ~image_input.detect[k].raised
                      /\ Len(image_input.detect[k].objs) > 0
    IN IF Success(1)
       THEN [embedding |-> image_input.detect[1].objs[1], tried |-> 1]
       ELSE IF Success(2)
       THEN [embedding |-> image_input.detect[2].objs[1], tried |-> 2]
       ELSE IF Success(3)
       THEN [embedding |-> image_input.detect[3].objs[1], tried |-> 3]
       ELSE [embedding |-> NoEmbedding, tried |-> 3]

\* session_cache[session_id][student_id] = embedding, creating the session's
\* dict when it is missing
cache_put(cache, session_id, student_id, embedding) ==
    Put(cache, session_id,
        Put(IF session_id \in DOMAIN cache THEN cache[session_id] ELSE << >>,
            student_id, embedding))

\* a resolution that looks in the session cache before the enrolled map
get_or_extract_embedding_cache_first(emb, cache, student_id, student_image, session_id) ==
    IF session_id \in DOMAIN cache /\ student_id \in DOMAIN cache[session_id]
    THEN [embedding |-> cache[session_id][student_id],
          session_cache |-> cache, extractions |-> 0, raised |-> FALSE]
    ELSE IF student_id \in DOMAIN emb
    THEN [embedding |-> emb[student_id], session_cache |-> cache,
          extractions |-> 0, raised |-> FALSE]
    ELSE IF ~student_image.decodable
    THEN [embedding |-> NoEmbedding, session_cache |-> cache,
          extractions |-> 0, raised |-> TRUE]
    ELSE LET embedding == extract_embedding(student_image).embedding IN
         [embedding |-> embedding,
          session_cache |-> IF embedding # NoEmbedding
                            THEN cache_put(cache, session_id, student_id,
                                           embedding)
                            ELSE cache,
          extractions |-> 1, raised |-> FALSE]

\* a resolution that does not write an extracted vector to the session cache
get_or_extract_embedding_no_write(emb, cache, student_id, student_image, session_id) ==
    IF student_id \in DOMAIN emb
    THEN [embedding |-> emb[student_id], session_cache |-> cache,
          extractions |-> 0, raised |-> FALSE]
    ELSE IF session_id \in DOMAIN cache /\ student_id \in DOMAIN cache[session_id]
    THEN [embedding |-> cache[session_id][student_id],
          session_cache |-> cache, extractions |-> 0, raised |-> FALSE]
    ELSE IF ~student_image.decodable
    THEN [embedding |-> NoEmbedding, session_cache |-> cache,
          extractions |-> 0, raised |-> TRUE]
    ELSE [embedding |-> extract_embedding(student_image).embedding,
          session_cache |-> cache, extractions |-> 1, raised |-> FALSE]

\* a resolution that caches whatever the extraction returned
get_or_extract_embedding_caching_failures(emb, cache, student_id, student_image, session_id) ==
    IF student_id \in DOMAIN emb
    THEN [embedding |-> emb[student_id], session_cache |-> cache,
          extractions |-> 0, raised |-> FALSE]
    ELSE IF session_id \in DOMAIN cache /\ student_id \in DOMAIN cache[session_id]
    THEN [embedding |-> cache[session_id][student_id],
          session_cache |-> cache, extractions |-> 0, raised |-> FALSE]
    ELSE IF ~student_image.decodable
    THEN [embedding |-> NoEmbedding, session_cache |-> cache,
          extractions |-> 0, raised |-> TRUE]
    ELSE LET embedding == extract_embedding(student_image).embedding IN
         [embedding |-> embedding,
          session_cache |-> cache_put(cache, session_id, student_id,
                                      embedding),
          extractions |-> 1, raised |-> FALSE]

\* FaceRecognizer.get_or_extract_embedding on the maps emb (self.embeddings)
\* and cache (self.session_cache): the enrolled vector, else the cached
\* one, else an extraction from the decoded image, cached when it succeeds.
\* extractions counts the calls of extract_embedding; raised is
\* _base64_to_image raising.
get_or_extract_embedding(emb, cache, student_id, student_image, session_id) ==
    IF student_id \in DOMAIN emb
    THEN [embedding |-> emb[student_id], session_cache |-> cache,
          extractions |-> 0, raised |-> FALSE]
    ELSE IF session_id \in DOMAIN cache /\ student_id \in DOMAIN cache[session_id]
    THEN [embedding |-> cache[session_id][student_id],
          session_cache |-> cache, extractions |-> 0, raised |-> FALSE]
    ELSE IF ~student_image.decodable
    THEN [embedding |-> NoEmbedding, session_cache |-> cache,
          extractions |-> 0, raised |-> TRUE]
    ELSE LET embedding == extract_embedding(student_image).embedding IN
         [embedding |-> embedding,
          session_cache |-> IF embedding # NoEmbedding
                            THEN cache_put(cache, session_id, student_id,
                                           embedding)
                            ELSE cache,
          extractions |-> 1, raised |-> FALSE]

\* a running minimum in which the last of several equal candidates wins
track_best_last_wins(best, student, distance) ==
    IF distance <= best.min_distance
    THEN [best EXCEPT !.best_match_id = student.id,
                      !.best_match_name = student.nom,
                      !.min_distance = distance]
    ELSE best

\* "Track best match": a strictly smaller distance replaces the best so far
track_best(best, student, distance) ==
    IF distance < best.min_distance
    THEN [best EXCEPT !.best_match_id = student.id,
                      !.best_match_name = student.nom,
                      !.min_distance = distance]
    ELSE best

\* loop variables that start from the largest cosine distance
initial_best_farthest(cache, session_id) ==
    [best_match_id |-> None, best_match_name |-> None, min_distance |-> 200,
     session_cache |-> IF session_id \in DOMAIN cache THEN cache
                       ELSE Put(cache, session_id, << >>),
     extractions |-> 1]

\* the loop variables of recognize_face_from_students before the loop
\* (min_distance = 1.0), with the session's cache initialised and the
\* extraction from the uploaded image counted
initial_best(cache, session_id) ==
    [best_match_id |-> None, best_match_name |-> None, min_distance |-> 100,
     session_cache |-> IF session_id \in DOMAIN cache THEN cache
                       ELSE Put(cache, session_id, << >>),
     extractions |-> 1]

\* a loop body that resolves students lacking an image too
compare_student_imageless(best, student, uploaded_embedding, g) ==
    IF g.raised \/ g.embedding = NoEmbedding
    THEN [best EXCEPT !.session_cache = g.session_cache,
                      !.extractions = @ + g.extractions]
    ELSE track_best([best EXCEPT !.session_cache = g.session_cache,
                                 !.extractions = @ + g.extractions],
                    student,
                    compute_cosine_distance(uploaded_embedding, g.embedding))

\* the body of the loop of recognize_face_from_students for one student,
\* g being what get_or_extract_embedding gives for it.  best holds the
\* loop's variables, the session cache and the count of extractions.
compare_student(best, student, uploaded_embedding, g) ==
    IF student.image = NoImage THEN best
    ELSE IF g.raised \/ g.embedding = NoEmbedding
    THEN [best EXCEPT !.session_cache = g.session_cache,
                      !.extractions = @ + g.extractions]
    ELSE track_best([best EXCEPT !.session_cache = g.session_cache,
                                 !.extractions = @ + g.extractions],
                    student,
                    compute_cosine_distance(uploaded_embedding, g.embedding))

\* the loop of recognize_face_from_students from student i on
RECURSIVE compare_students(_, _, _, _, _, _)
compare_students(roster, i, uploaded_embedding, session_id, emb, best) ==
    IF i > Len(roster) THEN best
    ELSE compare_students(roster, i + 1, uploaded_embedding, session_id,
             emb,
             compare_student(best, roster[i], uploaded_embedding,
                 get_or_extract_embedding(emb, best.session_cache,
                     roster[i].id, roster[i].image, session_id)))

\* a decision that returns the nearest member whatever its distance
match_result_nearest(best, threshold) ==
    [id |-> best.best_match_id, name |-> best.best_match_name,
     confidence |-> 100 - best.min_distance,
     session_cache |-> best.session_cache,
     extractions |-> best.extractions, raised |-> FALSE]

\* the end of recognize_face_from_students: "Check if best match exceeds
\* threshold"
match_result(best, threshold) ==
    IF best.min_distance <= threshold
    THEN [id |-> best.best_match_id, name |-> best.best_match_name,
          confidence |-> 100 - best.min_distance,
          session_cache |-> best.session_cache,
          extractions |-> best.extractions, raised |-> FALSE]
    ELSE [id |-> None, name |-> None,
          confidence |-> 100 - best.min_distance,
          session_cache |-> best.session_cache,
          extractions |-> best.extractions, raised |-> FALSE]

\* FaceRecognizer.recognize_face_from_students as a function of the
\* recognizer's maps and the threshold.  raised is _base64_to_image raising
\* on the uploaded image, which the method does not catch.
recognize(emb, cache, threshold, uploaded_image, roster, session_id) ==
    IF ~uploaded_image.decodable
    THEN [id |-> None, name |-> None, confidence |-> 0,
          session_cache |-> cache, extractions |-> 0, raised |-> TRUE]
    ELSE IF extract_embedding(uploaded_image).embedding = NoEmbedding
    THEN [id |-> None, name |-> None, confidence |-> 0,
          session_cache |-> cache, extractions |-> 1, raised |-> FALSE]
    ELSE match_result(
             compare_students(roster, 1,
                 extract_embedding(uploaded_image).embedding, session_id,
                 emb, initial_best(cache, session_id)),
             threshold)

\* test.py, try_extract_embedding_flexible: opencv strict, retinaface strict,
\* opencv relaxed; the first strategy that neither raises nor returns an
\* empty list gives the embedding
try_extract_embedding_flexible(image_array) ==
    LET Success(k) == /\ ~image_array.detect[k].raised
                      /\ Len(image_array.detect[k].objs) > 0
    IN IF Success(1) THEN image_array.detect[1].objs[1]
       ELSE IF Success(2) THEN image_array.detect[2].objs[1]
       ELSE IF Success(3) THEN image_array.detect[3].objs[1]
       ELSE NoEmbedding

\* test.py, compare_two_images, under the threshold of the settings:
\* _base64_to_image raising on either file ends the script with the
\* exception; an image in which no strategy finds a face ends it without a
\* result; otherwise the result holds the cosine distance of the two
\* embeddings and 'match': distance < settings.RECOGNITION_THRESHOLD
compare_two_images(image1, image2, threshold) ==
    LET NoResult(raised) == [compared |-> FALSE, raised |-> raised,
                             distance |-> 0, match |-> FALSE]
        embedding1 == try_extract_embedding_flexible(image1)
        embedding2 == try_extract_embedding_flexible(image2)
    IN IF ~image1.decodable THEN NoResult(TRUE)
       ELSE IF embedding1 = NoEmbedding THEN NoResult(FALSE)
       ELSE IF ~image2.decodable THEN NoResult(TRUE)
       ELSE IF embedding2 = NoEmbedding THEN NoResult(FALSE)
       ELSE [compared |-> TRUE, raised |-> FALSE,
             distance |-> compute_cosine_distance(embedding1, embedding2),
             match |-> compute_cosine_distance(embedding1, embedding2)
                         < threshold]

\* a file of EMBEDDINGS_DIR: pickle.load gives the embedding, or raises
Stored(embedding) == [readable |-> TRUE, embedding |-> embedding]

Unreadable == [readable |-> FALSE, embedding |-> NoEmbedding]

\* a load that gives up at an unreadable record
load_embeddings_aborting(files) ==
    IF \E x \in DOMAIN files : ~files[x].readable THEN << >>
    ELSE [student_id \in DOMAIN files |-> files[student_id].embedding]

\* FaceRecognizer.load_embeddings: the map of the records that load
load_embeddings(files) ==
    [student_id \in {x \in DOMAIN files : files[x].readable}
        |-> files[student_id].embedding]

\* identities, matching sessions and student documents
Ids == {"A", "B"}

Sessions == {"s1", "s2"}

Student(student_id, image) ==
    [id |-> student_id, nom |-> student_id \o "_nom", image |-> image]

\* what call holds when no method of the recognizer has run
NoCall == [op |-> "init", session |-> None, student |-> None,
           uploaded |-> NoImage, id |-> None, name |-> None,
           confidence |-> 0, embedding |-> NoEmbedding, extractions |-> 0,
           raised |-> FALSE, saved |-> FALSE, tried |-> 0,
           counts |-> [success |-> 0, skipped |-> 0, failed |-> 0],
           other |-> NoImage, compared |-> FALSE, distance |-> 0,
           match |-> FALSE]

\* the pairing service after import: empty stores, no firebase yet
InitService ==
    /\ now = 0
    /\ capture_sessions = << >>
    /\ active_connections = << >>
    /\ conn = [h \in Handles |-> [token |-> NoToken, state |-> "new"]]
    /\ inbox = [h \in Handles |-> << >>]
    /\ issued = << >>
    /\ nextHandle = 1
    /\ nextMsg = 1
    /\ firebase_service = None
    /\ attendance = {}
    /\ ended = {}
    /\ dropped = {}
    /\ last = [op |-> "init", token |-> NoToken, handle |-> NoHandle,
               result |-> None, push |-> "not_called", expires_in |-> -1,
               info |-> None, at |-> 0]

\* the service with a recognizer that found no embeddings on disk, under
\* the shipped settings
Init ==
    /\ InitService
    /\ settings = [RECOGNITION_THRESHOLD |-> RECOGNITION_THRESHOLD]
    /\ disk = << >>
    /\ embeddings = load_embeddings(disk)
    /\ session_cache = << >>
    /\ students = << >>
    /\ call = NoCall

\* POST /capture/start
start_capture_session(payload, n1, n2) ==
    /\ Len(issued) < MaxTokens
    /\ Reads2(n1, n2)
    /\ now' = n2
    /\ capture_sessions' =
          Put(cleanup_sessions(capture_sessions, n1), Len(issued) + 1,
              [session_info |-> payload, created_at |-> n2])
    /\ issued' = Append(issued, n2)
    /\ last' = [Ret("start", Len(issued) + 1, NoHandle, "token", n2)
                  EXCEPT !.expires_in = SESSION_TTL]
    /\ UNCHANGED <<active_connections, conn, inbox, nextHandle, nextMsg,
                   firebase_service, attendance, ended, dropped>>
    /\ UNCHANGED recognizerVars

\* GET /capture/session/{token}
fetch_capture_session(token, n1, n2) ==
    /\ Reads2(n1, n2)
    /\ now' = n2
    /\ LET g == get_capture_session(capture_sessions, token, n1, n2) IN
       /\ capture_sessions' = g.sessions
       /\ last' = IF ~g.found
                  THEN Ret("fetch", token, NoHandle, "NotFound", n2)
                  ELSE [Ret("fetch", token, NoHandle, "session", n2)
                          EXCEPT !.info = g.sessions[token].session_info]
    /\ UNCHANGED <<active_connections, conn, inbox, issued, nextHandle,
                   nextMsg, firebase_service, attendance, ended, dropped>>
    /\ UNCHANGED recognizerVars

\* milliseconds in a second: the resolution at which the model takes the
\* sub-second part of a clock reading
Millis == 1000

\* the sub-second parts of a clock reading, in milliseconds
Fractions == {0, 1, Millis \div 2, Millis - 1}

\* a conversion to whole seconds that rounds to the nearest second
int_total_seconds_rounded(seconds, ms) == (seconds * Millis + ms + Millis \div 2) \div Millis

\* int(delta.total_seconds()) of a timedelta of seconds and ms milliseconds:
\* int() truncates toward zero
int_total_seconds(seconds, ms) ==
    LET delta == seconds * Millis + ms IN
    IF delta >= 0 THEN delta \div Millis ELSE -((-delta) \div Millis)

\* GET /capture/validate/{token}: a third clock reading, of n3 seconds and
\* ms milliseconds, computes expires_in
validate_token_at(token, n1, n2, n3, ms) ==
    /\ Reads2(n1, n2) /\ Reads2(n2, n3)
    /\ now' = n3
    /\ LET g == get_capture_session(capture_sessions, token, n1, n2) IN
       /\ capture_sessions' = g.sessions
       /\ last' = IF ~g.found
                  THEN Ret("validate", token, NoHandle, "NotFound", n2)
                  ELSE [Ret("validate", token, NoHandle, "valid", n2)
                          EXCEPT !.expires_in =
                            Max(0, SESSION_TTL
                                   - int_total_seconds(
                                       n3 - g.sessions[token].created_at,
                                       ms))]
    /\ UNCHANGED <<active_connections, conn, inbox, issued, nextHandle,
                   nextMsg, firebase_service, attendance, ended, dropped>>
    /\ UNCHANGED recognizerVars

\* validate with its third clock reading on a whole second
validate_token(token, n1, n2, n3) == validate_token_at(token, n1, n2, n3, 0)

\* an upload that pushes without looking the session up
upload_capture_unchecked(token, n1, n2, ok) ==
    /\ nextMsg <= MaxMsgs
    /\ Reads2(n1, n2)
    /\ ~ok => token \in DOMAIN active_connections
    /\ now' = n2
    /\ LET message == [type |-> "image_received", id |-> nextMsg,
                       token |-> token]
           s == send_message(active_connections, inbox, message, token, ok)
       IN
       /\ inbox' = s.inbox
       /\ nextMsg' = nextMsg + 1
       /\ dropped' = IF token \in DOMAIN active_connections
                     THEN dropped ELSE dropped \cup {message}
       /\ last' = IF s.raised
                  THEN Ret("upload", token, NoHandle, "error500", n2)
                  ELSE [Ret("upload", token, NoHandle, "success", n2)
                          EXCEPT !.push = s.ret]
    /\ UNCHANGED <<capture_sessions, active_connections, conn, issued,
                   nextHandle, firebase_service, attendance, ended>>
    /\ UNCHANGED recognizerVars

\* POST /capture/upload/{token}.  ok = FALSE is send_json raising, which
\* the handler turns into a 500.  The message carries the image and the
\* timestamp; id stands for that content, token records whom it was for.
upload_capture(token, n1, n2, ok) ==
    /\ nextMsg <= MaxMsgs
    /\ Reads2(n1, n2)
    /\ CanRaise(capture_sessions, active_connections, token, n1, n2, ok)
    /\ now' = n2
    /\ LET g == get_capture_session(capture_sessions, token, n1, n2)
           message == [type |-> "image_received", id |-> nextMsg,
                       token |-> token]
           s == send_message(active_connections, inbox, message, token, ok)
       IN
       /\ capture_sessions' = g.sessions
       /\ IF ~g.found
          THEN /\ last' = Ret("upload", token, NoHandle, "NotFound", n2)
               /\ UNCHANGED <<inbox, nextMsg, dropped>>
          ELSE /\ inbox' = s.inbox
               /\ nextMsg' = nextMsg + 1
               /\ dropped' = IF token \in DOMAIN active_connections
                             THEN dropped ELSE dropped \cup {message}
               /\ last' = IF s.raised
                          THEN Ret("upload", token, NoHandle, "error500", n2)
                          ELSE [Ret("upload", token, NoHandle, "success", n2)
                                  EXCEPT !.push = s.ret]
    /\ UNCHANGED <<active_connections, conn, issued, nextHandle,
                   firebase_service, attendance, ended>>
    /\ UNCHANGED recognizerVars

\* a listen that admits every connection without the token check
websocket_endpoint_unchecked(token, n1, n2) ==
    /\ nextHandle <= MaxHandles
    /\ Reads2(n1, n2)
    /\ now' = n2
    /\ capture_sessions' = capture_sessions
    /\ conn' = [conn EXCEPT ![nextHandle] =
                  [token |-> token, state |-> "accepting"]]
    /\ last' = Ret("listen", token, nextHandle, "accepting", n2)
    /\ nextHandle' = nextHandle + 1
    /\ UNCHANGED <<active_connections, inbox, issued, nextMsg,
                   firebase_service, attendance, ended, dropped>>
    /\ UNCHANGED recognizerVars

\* websocket /ws/capture/{token}, up to the first await: the token check.
\* A rejected connection is closed with code 4003 and never accepted; an
\* admitted one suspends in manager.connect awaiting websocket.accept().
websocket_endpoint(token, n1, n2) ==
    /\ nextHandle <= MaxHandles
    /\ Reads2(n1, n2)
    /\ now' = n2
    /\ LET g == get_capture_session(capture_sessions, token, n1, n2) IN
       /\ capture_sessions' = g.sessions
       /\ IF ~g.found
          THEN /\ conn' = [conn EXCEPT ![nextHandle] = Closed]
               /\ last' = Ret("listen", token, nextHandle, "Rejected", n2)
          ELSE /\ conn' = [conn EXCEPT ![nextHandle] =
                             [token |-> token, state |-> "accepting"]]
               /\ last' = Ret("listen", token, nextHandle, "accepting", n2)
    /\ nextHandle' = nextHandle + 1
    /\ UNCHANGED <<active_connections, inbox, issued, nextMsg,
                   firebase_service, attendance, ended, dropped>>
    /\ UNCHANGED recognizerVars

\* a connect that replays to the new listener what was pushed for its
\* token while nobody listened
websocket_connect_replay(h, ok) ==
    /\ h \in Handles
    /\ conn[h].state = "accepting"
    /\ IF ok
       THEN /\ active_connections' =
                  connect(active_connections, h, conn[h].token)
            /\ conn' = [conn EXCEPT ![h].state = "open"]
            /\ inbox' = [inbox EXCEPT ![h] =
                  IF \E m \in dropped : m.token = conn[h].token
                  THEN Append(@, CHOOSE m \in dropped :
                                    m.token = conn[h].token)
                  ELSE @]
            /\ last' = Ret("connect", conn[h].token, h, "Attached", now)
       ELSE /\ active_connections' = active_connections
            /\ conn' = [conn EXCEPT ![h] = Closed]
            /\ inbox' = inbox
            /\ last' = Ret("connect", conn[h].token, h, "accept_failed", now)
    /\ UNCHANGED <<now, capture_sessions, issued, nextHandle,
                   nextMsg, firebase_service, attendance, ended, dropped>>
    /\ UNCHANGED recognizerVars

\* manager.connect resumes after accept: the connection is registered and
\* the handler enters its receive loop.  ok = FALSE is accept raising (the
\* peer went away): connect is outside the handler's try, nothing is
\* registered.
websocket_connect(h, ok) ==
    /\ h \in Handles
    /\ conn[h].state = "accepting"
    /\ IF ok
       THEN /\ active_connections' =
                  connect(active_connections, h, conn[h].token)
            /\ conn' = [conn EXCEPT ![h].state = "open"]
            /\ last' = Ret("connect", conn[h].token, h, "Attached", now)
       ELSE /\ active_connections' = active_connections
            /\ conn' = [conn EXCEPT ![h] = Closed]
            /\ last' = Ret("connect", conn[h].token, h, "accept_failed", now)
    /\ UNCHANGED <<now, capture_sessions, inbox, issued, nextHandle,
                   nextMsg, firebase_service, attendance, ended, dropped>>
    /\ UNCHANGED recognizerVars

\* a teardown that ends the handler without manager.disconnect
websocket_disconnect_unregistering_nothing(h) ==
    /\ h \in Handles
    /\ conn[h].state = "open"
    /\ conn' = [conn EXCEPT ![h] = Closed]
    /\ last' = Ret("disconnect", conn[h].token, h, "closed", now)
    /\ UNCHANGED <<now, capture_sessions, active_connections, inbox, issued,
                   nextHandle, nextMsg, firebase_service, attendance, ended,
                   dropped>>
    /\ UNCHANGED recognizerVars

\* receive_text raises WebSocketDisconnect or another exception: both
\* except clauses call manager.disconnect(token) and the handler ends.
websocket_disconnect(h) ==
    /\ h \in Handles
    /\ conn[h].state = "open"
    /\ active_connections' = disconnect(active_connections, conn[h].token)
    /\ conn' = [conn EXCEPT ![h] = Closed]
    /\ last' = Ret("disconnect", conn[h].token, h, "closed", now)
    /\ UNCHANGED <<now, capture_sessions, inbox, issued, nextHandle,
                   nextMsg, firebase_service, attendance, ended, dropped>>
    /\ UNCHANGED recognizerVars

\* DELETE /capture/session/{token}: pops the entry without an age check.
\* The handler reads no clock; n is the time at which it runs.
end_capture_session(token, n) ==
    /\ n \in Instants /\ now <= n
    /\ now' = n
    /\ IF token \in DOMAIN capture_sessions
       THEN /\ capture_sessions' = Remove(capture_sessions, token)
            /\ active_connections' = disconnect(active_connections, token)
            /\ ended' = ended \cup {token}
            /\ last' = Ret("end", token, NoHandle, "ended", n)
       ELSE /\ last' = Ret("end", token, NoHandle, "NotFound", n)
            /\ UNCHANGED <<capture_sessions, active_connections, ended>>
    /\ UNCHANGED <<conn, inbox, issued, nextHandle, nextMsg,
                   firebase_service, attendance, dropped>>
    /\ UNCHANGED recognizerVars

\* pydantic validation of the body of POST /attendance/mark: a field the
\* model class does not declare is dropped from the request object.
MarkAttendanceRequest(body) ==
    [f \in (DOMAIN body) \cap MarkAttendanceRequestFields |-> body[f]]

\* notify_capture_watchers: raises ValueError on a token that is not live.
\* sent tells what became of the payload.
notify_capture_watchers(cs, ac, ib, token, payload, n1, n2, ok) ==
    LET g == get_capture_session(cs, token, n1, n2)
        s == send_message(ac, ib, payload, token, ok)
    IN IF ~g.found
       THEN [sessions |-> g.sessions, inbox |-> ib, raised |-> "ValueError",
             sent |-> "invalid"]
       ELSE [sessions |-> g.sessions, inbox |-> s.inbox,
             raised |-> IF s.raised THEN "Exception" ELSE None,
             sent |-> IF token \notin DOMAIN ac THEN "no_listener"
                      ELSE IF s.raised THEN "failed" ELSE "sent"]

\* mark_attendance._send_capture_update.  Reading request.capture_token is
\* outside the function's try: on a request object without that attribute
\* it raises AttributeError to the caller.  ValueError and any exception of
\* the notification are caught and logged.
send_capture_update(request, cs, ac, ib, payload, n1, n2, ok) ==
    IF "capture_token" \notin DOMAIN request
    THEN [sessions |-> cs, inbox |-> ib, raised |-> "AttributeError",
          sent |-> "not_called"]
    ELSE IF request.capture_token = NoToken
    THEN [sessions |-> cs, inbox |-> ib, raised |-> None,
          sent |-> "not_called"]
    ELSE LET r == notify_capture_watchers(cs, ac, ib, request.capture_token,
                                          payload, n1, n2, ok)
         IN [sessions |-> r.sessions, inbox |-> r.inbox, raised |-> None,
             sent |-> r.sent]

\* startup_event: firebase_service stays None when FirebaseService() raises
startup_event(ok) ==
    /\ last.op = "init"
    /\ firebase_service' = IF ok THEN "ready" ELSE None
    /\ last' = Ret("startup", NoToken, NoHandle,
                   IF ok THEN "ready" ELSE None, now)
    /\ UNCHANGED <<now, capture_sessions, active_connections, conn, inbox,
                   issued, nextHandle, nextMsg, attendance, ended, dropped>>
    /\ UNCHANGED recognizerVars

\* POST /attendance/mark.  path is what the collaborators do: saving the
\* temporary files, the roster fetch or the recognition raises; the
\* class has no students; nobody is recognised; student is recognised and
\* mark_student_present succeeds or fails.  The last four build an
\* AttendanceResult and call _send_capture_update before returning it; an
\* exception inside the handler's try becomes a 500.
ResultPaths == {"no_students", "no_match", "marked", "mark_failed"}

Paths == {"exception"} \cup ResultPaths

\* whether the handler reaches notify_capture_watchers, the only place
\* where a clock reading decides anything and where send_json can raise
Notifies(request, path) ==
    /\ firebase_service # None
    /\ path \in ResultPaths
    /\ "capture_token" \in DOMAIN request
    /\ request.capture_token # NoToken

mark_attendance(body, path, student, n1, n2, ok) ==
    /\ nextMsg <= MaxMsgs
    /\ path \in Paths /\ student \in Students
    /\ Reads2(n1, n2)
    /\ LET request == MarkAttendanceRequest(body)
           token == body.capture_token
           payload == [type |-> "attendance_result", id |-> nextMsg,
                       token |-> token]
           u == send_capture_update(request, capture_sessions,
                                    active_connections, inbox, payload,
                                    n1, n2, ok)
       IN
       /\ ~Notifies(request, path) => (n1 = now /\ n2 = now /\ ok)
       /\ CanRaise(capture_sessions, active_connections, token, n1, n2, ok)
       /\ now' = n2
       /\ IF firebase_service = None
          THEN /\ last' = Ret("mark_attendance", token, NoHandle,
                               "error503", n2)
               /\ UNCHANGED <<capture_sessions, inbox, nextMsg, attendance,
                              dropped>>
          ELSE IF path \notin ResultPaths
          THEN /\ last' = [Ret("mark_attendance", token, NoHandle,
                                "error500", n2)
                             EXCEPT !.info = path]
               /\ UNCHANGED <<capture_sessions, inbox, nextMsg, attendance,
                              dropped>>
          ELSE /\ attendance' = IF path = "marked"
                                THEN attendance \cup {student} ELSE attendance
               /\ capture_sessions' = u.sessions
               /\ inbox' = u.inbox
               /\ nextMsg' = IF u.sent \in {"sent", "no_listener", "failed"}
                             THEN nextMsg + 1 ELSE nextMsg
               /\ dropped' = IF u.sent = "no_listener"
                             THEN dropped \cup {payload} ELSE dropped
               /\ last' = [Ret("mark_attendance", token, NoHandle,
                               IF u.raised = "AttributeError"
                               THEN "error500" ELSE "result", n2)
                             EXCEPT !.info = path, !.push = u.sent]
    /\ UNCHANGED <<active_connections, conn, issued, nextHandle,
                   firebase_service, ended>>
    /\ UNCHANGED recognizerVars

\* a call of recognizer.recognize_face_from_students with the class roster
recognize_face_from_students(uploaded_base64_image, session_id) ==
    \E r \in {recognize(embeddings, session_cache,
                       settings.RECOGNITION_THRESHOLD,
                       uploaded_base64_image, students, session_id)} :
    /\ session_cache' = r.session_cache
    /\ call' = [NoCall EXCEPT !.op = "recognize", !.session = session_id,
                              !.uploaded = uploaded_base64_image,
                              !.id = r.id, !.name = r.name,
                              !.confidence = r.confidence,
                              !.extractions = r.extractions,
                              !.raised = r.raised]
    /\ UNCHANGED <<settings, embeddings, disk, students>>
    /\ UNCHANGED serviceVars

\* POST /attendance/mark from the roster fetch on (main.py, steps 2 to 5):
\* the class roster is matched against the uploaded image and the student
\* recognised is marked present; success is what mark_student_present
\* returns.  An exception of the recognizer becomes a 500; so does every
\* result, because _send_capture_update reads request.capture_token, which
\* MarkAttendanceRequest does not have.
mark_attendance_recognizing(uploaded_base64_image, session_id, success) ==
    /\ firebase_service # None
    /\ IF students = << >>
       THEN /\ last' = [Ret("mark_attendance", NoToken, NoHandle,
                            "error500", now)
                          EXCEPT !.info = "no_students"]
            /\ UNCHANGED <<attendance, session_cache, call>>
       ELSE \E r \in {recognize(embeddings, session_cache,
                                settings.RECOGNITION_THRESHOLD,
                                uploaded_base64_image, students,
                                session_id)} :
            /\ session_cache' = r.session_cache
            /\ call' = [NoCall EXCEPT !.op = "recognize",
                                      !.session = session_id,
                                      !.uploaded = uploaded_base64_image,
                                      !.id = r.id, !.name = r.name,
                                      !.confidence = r.confidence,
                                      !.extractions = r.extractions,
                                      !.raised = r.raised]
            /\ attendance' = IF ~r.raised /\ r.id # None /\ success
                             THEN attendance \cup {r.id} ELSE attendance
            /\ last' = [Ret("mark_attendance", NoToken, NoHandle,
                            "error500", now)
                          EXCEPT !.info = IF r.raised THEN "exception"
                                          ELSE IF r.id = None THEN "no_match"
                                          ELSE IF success THEN "marked"
                                          ELSE "mark_failed"]
    /\ UNCHANGED <<now, capture_sessions, active_connections, conn, inbox,
                   issued, nextHandle, nextMsg, firebase_service, ended,
                   dropped>>
    /\ UNCHANGED <<settings, embeddings, disk, students>>

\* a call of recognizer.get_or_extract_embedding for student i of the roster
resolve_embedding(i, session_id) ==
    /\ i \in DOMAIN students
    /\ LET g == get_or_extract_embedding(embeddings, session_cache,
                                         students[i].id, students[i].image,
                                         session_id)
       IN
       /\ session_cache' = g.session_cache
       /\ call' = [NoCall EXCEPT !.op = "resolve", !.session = session_id,
                                 !.student = students[i].id,
                                 !.embedding = g.embedding,
                                 !.extractions = g.extractions,
                                 !.raised = g.raised]
    /\ UNCHANGED <<settings, embeddings, disk, students>>
    /\ UNCHANGED serviceVars

\* a save that updates the in-memory map before it writes the file
save_embedding_memory_first(student_id, embedding, outcome) ==
    /\ disk' = IF outcome = "ok" THEN Put(disk, student_id, Stored(embedding))
               ELSE IF outcome = "dump_fails"
               THEN Put(disk, student_id, Unreadable)
               ELSE disk
    /\ embeddings' = Put(embeddings, student_id, embedding)
    /\ call' = [NoCall EXCEPT !.op = "save", !.student = student_id,
                              !.embedding = embedding,
                              !.saved = (outcome = "ok")]
    /\ UNCHANGED <<settings, session_cache, students>>
    /\ UNCHANGED serviceVars

\* FaceRecognizer.save_embedding.  outcome: the file is written ("ok"),
\* open raises ("open_fails"), or pickle.dump raises after open has
\* truncated the file ("dump_fails").
save_embedding(student_id, embedding, outcome) ==
    /\ disk' = IF outcome = "ok" THEN Put(disk, student_id, Stored(embedding))
               ELSE IF outcome = "dump_fails"
               THEN Put(disk, student_id, Unreadable)
               ELSE disk
    /\ embeddings' = IF outcome = "ok"
                     THEN Put(embeddings, student_id, embedding)
                     ELSE embeddings
    /\ call' = [NoCall EXCEPT !.op = "save", !.student = student_id,
                              !.embedding = embedding,
                              !.saved = (outcome = "ok")]
    /\ UNCHANGED <<settings, session_cache, students>>
    /\ UNCHANGED serviceVars

\* mark_attendance reaches its call of recognize_face_from_students: an
\* ordinary, blocking call made by the coroutine on the event loop's thread
match_begin(uploaded_base64_image, session_id) ==
    /\ call.op # "matching"
    /\ call' = [NoCall EXCEPT !.op = "matching", !.session = session_id,
                              !.uploaded = uploaded_base64_image]
    /\ UNCHANGED <<settings, embeddings, session_cache, disk, students>>
    /\ UNCHANGED serviceVars

\* the call of recognize_face_from_students returns to mark_attendance
match_return ==
    /\ call.op = "matching"
    /\ recognize_face_from_students(call.uploaded, call.session)

\* The event loop runs one coroutine at a time and switches only at an
\* await: handler is run when no coroutine is inside a blocking call.
OnEventLoop(handler) == call.op # "matching" /\ handler

\* FaceRecognizer.__init__: a recognizer constructed over the directory as
\* it is, at a start of the service or of precompute_embeddings.py
FaceRecognizer_init ==
    /\ embeddings' = load_embeddings(disk)
    /\ session_cache' = << >>
    /\ call' = [NoCall EXCEPT !.op = "load"]
    /\ UNCHANGED <<settings, disk, students>>
    /\ UNCHANGED serviceVars

\* what save_embedding can do: write the record; fail to open the file;
\* fail in pickle.dump after open has truncated the file
SaveOutcomes == {"ok", "open_fails", "dump_fails"}

\* one iteration of the loop of precompute_embeddings, on the run r: the
\* files of EMBEDDINGS_DIR, the map of the script's recognizer and the
\* three counters.  A student whose .pkl file exists is skipped; one with
\* no image, an image that cannot be decoded or one with no face fails;
\* the others are saved, outcome being what save_embedding does.
precompute_student(r, student, outcome) ==
    IF student.id \in DOMAIN r.disk
    THEN [r EXCEPT !.skipped = @ + 1]
    ELSE IF student.image = NoImage \/ ~student.image.decodable
    THEN [r EXCEPT !.failed = @ + 1]
    ELSE LET embedding == extract_embedding(student.image).embedding IN
         IF embedding = NoEmbedding
         THEN [r EXCEPT !.failed = @ + 1]
         ELSE IF outcome = "ok"
         THEN [r EXCEPT !.disk = Put(@, student.id, Stored(embedding)),
                        !.embeddings = Put(@, student.id, embedding),
                        !.success = @ + 1]
         ELSE [r EXCEPT !.disk = IF outcome = "dump_fails"
                                 THEN Put(@, student.id, Unreadable) ELSE @,
                        !.failed = @ + 1,
                        !.save_failed = TRUE]

\* the loop of precompute_embeddings from student i of the roster on
RECURSIVE precompute_from(_, _, _, _)
precompute_from(r, roster, i, outcomes) ==
    IF i > Len(roster) THEN r
    ELSE precompute_from(precompute_student(r, roster[i], outcomes[i]),
                         roster, i + 1, outcomes)

\* a run of precompute_embeddings over the students fetched: the script
\* constructs its own FaceRecognizer, which loads the embeddings directory
precompute_embeddings(outcomes) ==
    \E r \in {precompute_from(
                 [disk |-> disk, embeddings |-> load_embeddings(disk),
                  success |-> 0, skipped |-> 0, failed |-> 0,
                  save_failed |-> FALSE],
                 students, 1, outcomes)} :
    /\ disk' = r.disk
    /\ embeddings' = r.embeddings
    /\ session_cache' = << >>
    /\ call' = [NoCall EXCEPT !.op = "precompute",
                              !.saved = ~r.save_failed,
                              !.counts = [success |-> r.success,
                                          skipped |-> r.skipped,
                                          failed |-> r.failed]]
    /\ UNCHANGED <<settings, students>>
    /\ UNCHANGED serviceVars

\* a call of recognizer.extract_embedding on a decoded image
extract(image_input) ==
    /\ image_input.decodable
    /\ call' = [NoCall EXCEPT !.op = "extract", !.uploaded = image_input,
                   !.embedding = extract_embedding(image_input).embedding,
                   !.tried = extract_embedding(image_input).tried]
    /\ UNCHANGED <<settings, embeddings, session_cache, disk, students>>
    /\ UNCHANGED serviceVars

\* a clear that drops the cache of every session
clear_session_cache_of_all(session_id) ==
    /\ session_cache' = << >>
    /\ call' = [NoCall EXCEPT !.op = "clear", !.session = session_id]
    /\ UNCHANGED <<settings, embeddings, disk, students>>
    /\ UNCHANGED serviceVars

\* FaceRecognizer.clear_session_cache
clear_session_cache(session_id) ==
    /\ session_cache' = IF session_id \in DOMAIN session_cache
                        THEN Remove(session_cache, session_id)
                        ELSE session_cache
    /\ call' = [NoCall EXCEPT !.op = "clear", !.session = session_id]
    /\ UNCHANGED <<settings, embeddings, disk, students>>
    /\ UNCHANGED serviceVars

Bodies ==
    [image : {"img"}, session : Payloads, capture_token : Tokens \cup {NoToken}]

\* the clock readings that matter to a call of mark_attendance
ClockOf(body, path) ==
    IF Notifies(MarkAttendanceRequest(body), path) THEN Instants ELSE {now}

\* the whole service
Next ==
    \/ \E ok \in BOOLEAN : startup_event(ok)
    \/ \E p \in Payloads, n1 \in Instants : \E n2 \in Later(n1) :
          start_capture_session(p, n1, n2)
    \/ \E t \in Tokens, n1 \in Instants : \E n2 \in Later(n1) :
          fetch_capture_session(t, n1, n2)
    \/ \E t \in Tokens, n1 \in Instants :
          \E n2 \in Later(n1) : \E n3 \in Later(n2) :
             validate_token(t, n1, n2, n3)
    \/ \E t \in Tokens, n1 \in Instants, ok \in BOOLEAN :
          \E n2 \in Later(n1) : upload_capture(t, n1, n2, ok)
    \/ \E t \in Tokens, n1 \in Instants : \E n2 \in Later(n1) :
          websocket_endpoint(t, n1, n2)
    \/ \E h \in Handles, ok \in BOOLEAN : websocket_connect(h, ok)
    \/ \E h \in Handles : websocket_disconnect(h)
    \/ \E t \in Tokens, n \in Instants : end_capture_session(t, n)
    \/ \E b \in Bodies, path \in Paths, s \in Students :
          \E n1 \in ClockOf(b, path) : \E n2 \in Later(n1), ok \in BOOLEAN :
             mark_attendance(b, path, s, n1, n2, ok)

Spec == Init /\ [][Next]_vars

\* the token store: every handler that creates, looks up or removes a
\* session (a listening connection stops at its token check)
NextStore ==
    \/ \E p \in Payloads, n1 \in Instants : \E n2 \in Later(n1) :
          start_capture_session(p, n1, n2)
    \/ \E t \in Tokens, n1 \in Instants : \E n2 \in Later(n1) :
          fetch_capture_session(t, n1, n2)
    \/ \E t \in Tokens, n1 \in Instants :
          \E n2 \in Later(n1) : \E n3 \in Later(n2) :
             validate_token(t, n1, n2, n3)
    \/ \E t \in Tokens, n1 \in Instants, ok \in BOOLEAN :
          \E n2 \in Later(n1) : upload_capture(t, n1, n2, ok)
    \/ \E t \in Tokens, n1 \in Instants : \E n2 \in Later(n1) :
          websocket_endpoint(t, n1, n2)
    \/ \E t \in Tokens, n \in Instants : end_capture_session(t, n)

SpecStore == Init /\ [][NextStore]_vars

\* the listening side: sessions start, expire and end while connections
\* ask to listen, attach and detach
NextListen ==
    \/ \E p \in Payloads, n1 \in Instants : \E n2 \in Later(n1) :
          start_capture_session(p, n1, n2)
    \/ \E t \in Tokens, n1 \in Instants : \E n2 \in Later(n1) :
          websocket_endpoint(t, n1, n2)
    \/ \E h \in Handles, ok \in BOOLEAN : websocket_connect(h, ok)
    \/ \E h \in Handles : websocket_disconnect(h)
    \/ \E t \in Tokens, n \in Instants : end_capture_session(t, n)

SpecListen == Init /\ [][NextListen]_vars

\* the pairing channel: the listening side together with the uploads that
\* push to it
NextChannel ==
    \/ \E p \in Payloads, n1 \in Instants : \E n2 \in Later(n1) :
          start_capture_session(p, n1, n2)
    \/ \E t \in Tokens, n1 \in Instants, ok \in BOOLEAN :
          \E n2 \in Later(n1) : upload_capture(t, n1, n2, ok)
    \/ \E t \in Tokens, n1 \in Instants : \E n2 \in Later(n1) :
          websocket_endpoint(t, n1, n2)
    \/ \E h \in Handles, ok \in BOOLEAN : websocket_connect(h, ok)
    \/ \E h \in Handles : websocket_disconnect(h)
    \/ \E t \in Tokens, n \in Instants : end_capture_session(t, n)

SpecChannel == Init /\ [][NextChannel]_vars

\* the match surface together with the pairing steps that give it a live
\* token with a listener
NextAttendance ==
    \/ \E ok \in BOOLEAN : startup_event(ok)
    \/ \E p \in Payloads, n1 \in Instants : \E n2 \in Later(n1) :
          start_capture_session(p, n1, n2)
    \/ \E t \in Tokens, n1 \in Instants : \E n2 \in Later(n1) :
          websocket_endpoint(t, n1, n2)
    \/ \E h \in Handles, ok \in BOOLEAN : websocket_connect(h, ok)
    \/ \E b \in Bodies, path \in Paths, s \in Students :
          \E n1 \in ClockOf(b, path) : \E n2 \in Later(n1), ok \in BOOLEAN :
             mark_attendance(b, path, s, n1, n2, ok)

SpecAttendance == Init /\ [][NextAttendance]_vars

\* vector resolution: a recognizer constructed over some embeddings
\* directory resolves the vectors of a roster while embeddings are saved and
\* session caches cleared
ResolveRosters ==
    {<<Student("A", Photo(Face45)), Student("B", image)>> :
        image \in {NoFace, Undecodable, Photo(Face46)}}

InitResolve ==
    /\ InitService
    /\ settings = [RECOGNITION_THRESHOLD |-> RECOGNITION_THRESHOLD]
    /\ disk \in {<< >>, [x \in {"B"} |-> Stored(Face30)],
                 [x \in {"B"} |-> Unreadable]}
    /\ embeddings = load_embeddings(disk)
    /\ session_cache = << >>
    /\ students \in ResolveRosters
    /\ call = NoCall

NextResolve ==
    \/ \E i \in 1..Cardinality(Ids), s \in Sessions : resolve_embedding(i, s)
    \/ \E x \in Ids, e \in {Face30, Face160},
          outcome \in {"ok", "open_fails", "dump_fails"} :
          save_embedding(x, e, outcome)
    \/ \E s \in Sessions : clear_session_cache(s)

SpecResolve == InitResolve /\ [][NextResolve]_vars

\* ---- the enrolled vectors on disk and in memory ----

\* the records EMBEDDINGS_DIR may hold for the identities
Disks ==
    UNION {[present -> {Stored(Face30), Stored(Face160), Unreadable}] :
             present \in SUBSET Ids}

InitEnrol ==
    /\ InitService
    /\ settings = [RECOGNITION_THRESHOLD |-> RECOGNITION_THRESHOLD]
    /\ disk \in Disks
    /\ embeddings = load_embeddings(disk)
    /\ session_cache = << >>
    /\ students = << >>
    /\ call = NoCall

NextEnrol ==
    \/ \E x \in Ids, e \in {Face30, Face45},
          outcome \in {"ok", "open_fails", "dump_fails"} :
          save_embedding(x, e, outcome)
    \/ FaceRecognizer_init

SpecEnrol == InitEnrol /\ [][NextEnrol]_vars

\* ---- the session store under lookups of any token ----

\* the tokens a client may present: those start can issue, and one that is
\* never issued
Presented == Tokens \cup {MaxTokens + 1}

\* start, the lookups of _get_capture_session and end, for every token a
\* client may present
NextSweep ==
    \/ \E p \in Payloads, n1 \in Instants : \E n2 \in Later(n1) :
          start_capture_session(p, n1, n2)
    \/ \E t \in Presented, n1 \in Instants : \E n2 \in Later(n1) :
          fetch_capture_session(t, n1, n2)
    \/ \E t \in Presented, n1 \in Instants :
          \E n2 \in Later(n1) : \E n3 \in Later(n2) :
             validate_token(t, n1, n2, n3)
    \/ \E t \in Presented, n1 \in Instants, ok \in BOOLEAN :
          \E n2 \in Later(n1) : upload_capture(t, n1, n2, ok)
    \/ \E t \in Presented, n1 \in Instants : \E n2 \in Later(n1) :
          websocket_endpoint(t, n1, n2)
    \/ \E t \in Presented, n \in Instants : end_capture_session(t, n)

SpecSweep == Init /\ [][NextSweep]_vars

\* ---- teardown of listeners: sessions with listeners that attach and detach
\* while uploads push ----
NextTeardown ==
    \/ \E p \in Payloads, n1 \in Instants : \E n2 \in Later(n1) :
          start_capture_session(p, n1, n2)
    \/ \E t \in Tokens, n1 \in Instants, ok \in BOOLEAN :
          \E n2 \in Later(n1) : upload_capture(t, n1, n2, ok)
    \/ \E t \in Tokens, n1 \in Instants : \E n2 \in Later(n1) :
          websocket_endpoint(t, n1, n2)
    \/ \E h \in Handles, ok \in BOOLEAN : websocket_connect(h, ok)
    \/ \E h \in Handles : websocket_disconnect(h)

SpecTeardown == Init /\ [][NextTeardown]_vars

\* ---- the life of a session: the token store with distinct payloads ----

\* the session payloads a client may start with
StartPayloads == Payloads \cup {"classY"}

NextSession ==
    \/ \E p \in StartPayloads, n1 \in Instants : \E n2 \in Later(n1) :
          start_capture_session(p, n1, n2)
    \/ \E t \in Tokens, n1 \in Instants : \E n2 \in Later(n1) :
          fetch_capture_session(t, n1, n2)
    \/ \E t \in Tokens, n1 \in Instants :
          \E n2 \in Later(n1) : \E n3 \in Later(n2) :
             validate_token(t, n1, n2, n3)
    \/ \E t \in Tokens, n1 \in Instants, ok \in BOOLEAN :
          \E n2 \in Later(n1) : upload_capture(t, n1, n2, ok)
    \/ \E t \in Tokens, n1 \in Instants : \E n2 \in Later(n1) :
          websocket_endpoint(t, n1, n2)
    \/ \E t \in Tokens, n \in Instants : end_capture_session(t, n)

SpecSession == Init /\ [][NextSession]_vars

\* ---- validate at sub-second clock readings ----
NextValidate ==
    \/ \E p \in StartPayloads, n1 \in Instants : \E n2 \in Later(n1) :
          start_capture_session(p, n1, n2)
    \/ \E t \in Presented, n1 \in Instants, ms \in Fractions :
          \E n2 \in Later(n1) : \E n3 \in Later(n2) :
             validate_token_at(t, n1, n2, n3, ms)
    \/ \E t \in Presented, n1 \in Instants : \E n2 \in Later(n1) :
          fetch_capture_session(t, n1, n2)
    \/ \E t \in Presented, n \in Instants : end_capture_session(t, n)

SpecValidate == Init /\ [][NextValidate]_vars

\* ---- listeners and uploads on several tokens ----

\* the tokens of the two sessions started so far
Started == {1, 2}

\* the service after a start for each of those tokens, all at time 0
InitIsolation ==
    /\ now = 0
    /\ capture_sessions =
          [t \in Started |-> [session_info |-> "classX", created_at |-> 0]]
    /\ issued = [t \in Started |-> 0]
    /\ active_connections = << >>
    /\ conn = [h \in Handles |-> [token |-> NoToken, state |-> "new"]]
    /\ inbox = [h \in Handles |-> << >>]
    /\ nextHandle = 1
    /\ nextMsg = 1
    /\ firebase_service = None
    /\ attendance = {}
    /\ ended = {}
    /\ dropped = {}
    /\ last = [Ret("start", 2, NoHandle, "token", 0)
                 EXCEPT !.expires_in = SESSION_TTL]
    /\ settings = [RECOGNITION_THRESHOLD |-> RECOGNITION_THRESHOLD]
    /\ disk = << >>
    /\ embeddings = load_embeddings(disk)
    /\ session_cache = << >>
    /\ students = << >>
    /\ call = NoCall

NextIsolation ==
    \/ \E t \in Started, n1 \in Instants, ok \in BOOLEAN :
          \E n2 \in Later(n1) : upload_capture(t, n1, n2, ok)
    \/ \E t \in Started, n1 \in Instants : \E n2 \in Later(n1) :
          websocket_endpoint(t, n1, n2)
    \/ \E h \in Handles, ok \in BOOLEAN : websocket_connect(h, ok)
    \/ \E h \in Handles : websocket_disconnect(h)
    \/ \E t \in Started, n \in Instants : end_capture_session(t, n)

SpecIsolation == InitIsolation /\ [][NextIsolation]_vars

\* ---- the handlers on the event loop while a match runs ----

\* the pairing handlers the event loop may run
PairingHandlers ==
    \/ \E p \in Payloads, n1 \in Instants : \E n2 \in Later(n1) :
          start_capture_session(p, n1, n2)
    \/ \E t \in Tokens, n1 \in Instants :
          \E n2 \in Later(n1) : \E n3 \in Later(n2) :
             validate_token(t, n1, n2, n3)
    \/ \E t \in Tokens, n1 \in Instants, ok \in BOOLEAN :
          \E n2 \in Later(n1) : upload_capture(t, n1, n2, ok)
    \/ \E t \in Tokens, n1 \in Instants : \E n2 \in Later(n1) :
          websocket_endpoint(t, n1, n2)
    \/ \E h \in Handles, ok \in BOOLEAN : websocket_connect(h, ok)
    \/ \E h \in Handles : websocket_disconnect(h)
    \/ \E t \in Tokens, n \in Instants : end_capture_session(t, n)

NextLoop ==
    \/ OnEventLoop(PairingHandlers)
    \/ \E s \in Sessions : match_begin(Photo(ProbeFace), s)
    \/ match_return

SpecLoop == Init /\ [][NextLoop]_vars

\* ---- the detection strategies of extract_embedding ----

\* what DeepFace.represent may do with an image under one strategy: raise,
\* return no object, or return the embedding of a face
Detections == {Raises, Nothing} \cup {Found(e) : e \in RosterFaces}

\* decoded images, by what each of the three strategies does with them
DetectImages ==
    {[decodable |-> TRUE, detect |-> <<d1, d2, d3>>] :
        d1 \in Detections, d2 \in Detections, d3 \in Detections}

NextExtract == \E image \in DetectImages : extract(image)

SpecExtract == Init /\ [][NextExtract]_vars

\* ---- the recognizer matching probes against the roster of a class ----

\* values of the RECOGNITION_THRESHOLD setting: the default, and 1.0
Thresholds == {RECOGNITION_THRESHOLD, 100}

\* the 'image' field of a student document
Images == {NoImage, Undecodable, NoFace} \cup {Photo(e) : e \in RosterFaces}

\* the rosters get_students_by_class returns: students with distinct ids
MatchRosters ==
    {<< >>}
    \cup {<<Student(x, i)>> : x \in Ids, i \in Images}
    \cup {<<Student(xy[1], i), Student(xy[2], j)>> :
            xy \in {p \in Ids \X Ids : p[1] # p[2]}, i \in Images,
            j \in Images}

\* the images a capture uploads
Probes == {Photo(ProbeFace), NoFace, Undecodable}

InitMatch ==
    /\ InitService
    /\ settings \in [RECOGNITION_THRESHOLD : Thresholds]
    /\ disk \in {<< >>, [x \in {"A"} |-> Stored(Face30)],
                 [x \in {"B"} |-> Stored(Face100)]}
    /\ embeddings = load_embeddings(disk)
    /\ session_cache = << >>
    /\ students \in MatchRosters
    /\ call = NoCall

NextMatch ==
    \/ \E image \in Probes, s \in Sessions :
          recognize_face_from_students(image, s)
    \/ \E s \in Sessions : clear_session_cache(s)

SpecMatch == InitMatch /\ [][NextMatch]_vars

\* ---- attendance marked by the match engine ----

\* the service after a startup_event that found Firebase, over the
\* recognizers and rosters of the match engine
InitMark ==
    /\ now = 0
    /\ capture_sessions = << >>
    /\ active_connections = << >>
    /\ conn = [h \in Handles |-> [token |-> NoToken, state |-> "new"]]
    /\ inbox = [h \in Handles |-> << >>]
    /\ issued = << >>
    /\ nextHandle = 1
    /\ nextMsg = 1
    /\ firebase_service = "ready"
    /\ attendance = {}
    /\ ended = {}
    /\ dropped = {}
    /\ last = Ret("startup", NoToken, NoHandle, "ready", 0)
    /\ settings \in [RECOGNITION_THRESHOLD : Thresholds]
    /\ disk \in {<< >>, [x \in {"A"} |-> Stored(Face30)],
                 [x \in {"B"} |-> Stored(Face100)]}
    /\ embeddings = load_embeddings(disk)
    /\ session_cache = << >>
    /\ students \in MatchRosters
    /\ call = NoCall

NextMark ==
    \E image \in Probes, s \in Sessions, success \in BOOLEAN :
       mark_attendance_recognizing(image, s, success)

SpecMark == InitMark /\ [][NextMark]_vars

\* ---- runs of the pre-computation script ----

InitPrecompute ==
    /\ InitService
    /\ settings = [RECOGNITION_THRESHOLD |-> RECOGNITION_THRESHOLD]
    /\ disk \in Disks
    /\ embeddings = load_embeddings(disk)
    /\ session_cache = << >>
    /\ students \in MatchRosters
    /\ call = NoCall

NextPrecompute ==
    \/ \E outcomes \in [1..Cardinality(Ids) -> SaveOutcomes] :
          precompute_embeddings(outcomes)
    \/ FaceRecognizer_init

SpecPrecompute == InitPrecompute /\ [][NextPrecompute]_vars

\* ---- the comparison script beside the recognizer ----

\* the image files the script is given second
CompareImages == {Undecodable, NoFace} \cup {Photo(e) : e \in RosterFaces}

\* a run of test.py on two image files
compare(image1, image2) ==
    \E r \in {compare_two_images(image1, image2,
                                 settings.RECOGNITION_THRESHOLD)} :
    /\ call' = [NoCall EXCEPT !.op = "compare", !.uploaded = image1,
                              !.other = image2, !.compared = r.compared,
                              !.raised = r.raised, !.distance = r.distance,
                              !.match = r.match]
    /\ UNCHANGED <<settings, embeddings, disk, students, session_cache>>
    /\ UNCHANGED serviceVars

\* nobody is enrolled; the class has one student
InitCompare ==
    /\ InitService
    /\ settings \in [RECOGNITION_THRESHOLD : Thresholds]
    /\ disk = << >>
    /\ embeddings = load_embeddings(disk)
    /\ session_cache = << >>
    /\ students \in {r \in MatchRosters : Len(r) = 1}
    /\ call = NoCall

NextCompare ==
    \/ \E image1 \in Probes, image2 \in CompareImages :
          compare(image1, image2)
    \/ \E image \in Probes, s \in Sessions :
          recognize_face_from_students(image, s)

SpecCompare == InitCompare /\ [][NextCompare]_vars

\* ---- pairing sessions over matching sessions ----
\* The payload of a pairing session is the SessionInfo of a matching
\* session, whose id mark_attendance passes to the recognizer as session_id.

InitSessionEnd ==
    /\ InitService
    /\ settings = [RECOGNITION_THRESHOLD |-> RECOGNITION_THRESHOLD]
    /\ disk = << >>
    /\ embeddings = load_embeddings(disk)
    /\ session_cache = << >>
    /\ students \in {<<Student("A", Photo(e))>> : e \in {Face30, Face46}}
    /\ call = NoCall

NextSessionEnd ==
    \/ \E s \in Sessions, n1 \in Instants : \E n2 \in Later(n1) :
          start_capture_session(s, n1, n2)
    \/ \E image \in Probes, s \in Sessions :
          recognize_face_from_students(image, s)
    \/ \E t \in Tokens, n \in Instants : end_capture_session(t, n)

SpecSessionEnd == InitSessionEnd /\ [][NextSessionEnd]_vars

\* ------------------------------------------------------------------ claims
LookupOps == {"fetch", "validate", "upload", "listen"}

Negative == {"NotFound", "Rejected"}

\* token t has no session that is live at clock reading n
NotLive(t, n) ==
    \/ t \notin DOMAIN capture_sessions
    \/ n - capture_sessions[t].created_at > SESSION_TTL

Range(f) == {f[x] : x \in DOMAIN f}

\* C1: for a session created by start and not ended, a lookup (validate,
\* fetch, upload, listen) made at clock reading `at` answers NotFound (a
\* listen: Rejected) exactly when at - created_at > SESSION_TTL, whatever
\* lookups, sweeps and starts of other tokens came before.
C1_LookupNotFoundIffExpired ==
    \A t \in DOMAIN issued :
        (last.op \in LookupOps /\ last.token = t /\ t \notin ended)
        => ((last.result \in Negative) <=> (last.at - issued[t] > SESSION_TTL))

\* C1 witness: a validate answered NotFound for a token that start had
\* issued, that was never ended and whose age exceeded the TTL
C1_Witness ==
    /\ last.op = "validate" /\ last.result = "NotFound"
    /\ last.token \in DOMAIN issued /\ last.token \notin ended
    /\ last.at - issued[last.token] > SESSION_TTL

\* C2: when a listen h2 attaches on a token for which the connection h1 of
\* an earlier listen is registered, the registry maps the token to h2
\* afterwards and h1 has been closed.
C2_SecondListenClosesFirst ==
    [][ \A h1, h2 \in Handles :
          ( /\ last'.op = "connect" /\ last'.result = "Attached"
            /\ last'.handle = h2 /\ h1 # h2
            /\ Registered(active_connections, last'.token) = h1 )
          => ( /\ active_connections'[last'.token] = h2
               /\ conn'[h1].state = "closed" ) ]_vars

\* C3: a registered connection never outlives the session of its token:
\* whenever a step removes a session from the store (by a sweep, by the
\* eviction of a lookup or by end), no connection is registered for that
\* token afterwards.
C3_SessionRemovalTearsDownChannel ==
    [][ \A t \in Tokens :
           (t \in DOMAIN capture_sessions /\ t \notin DOMAIN capture_sessions')
           => t \notin DOMAIN active_connections' ]_vars

\* C4: a listen on a token that is unknown, expired or ended is rejected:
\* its connection is closed without having been accepted, it is registered
\* nowhere and active_connections is unchanged.
C4_RejectedListenRegistersNothing ==
    [][ (last'.op = "listen" /\ NotLive(last'.token, last'.at))
        => ( /\ last'.result = "Rejected"
             /\ conn[last'.handle].state = "new"
             /\ conn'[last'.handle].state = "closed"
             /\ active_connections' = active_connections
             /\ last'.handle \notin Range(active_connections') ) ]_vars

\* C4 witness: a listen on a token that start had issued was rejected while
\* a connection of another listen was registered
C4_Witness ==
    /\ last.op = "listen" /\ last.result = "Rejected"
    /\ last.token \in DOMAIN issued
    /\ DOMAIN active_connections # {}

\* C5: the first end of a present session answers ended and removes the
\* session and the connection registered for the token; an end of an absent
\* session answers NotFound and changes nothing; an ended token is never
\* present again, so every later end is of the second kind.
C5_EndIdempotent ==
    [][ /\ \A t \in ended' : t \notin DOMAIN capture_sessions'
        /\ last'.op = "end"
           => IF last'.token \in DOMAIN capture_sessions
              THEN /\ last'.result = "ended"
                   /\ last'.token \notin DOMAIN capture_sessions'
                   /\ last'.token \notin DOMAIN active_connections'
                   /\ last'.token \in ended'
              ELSE /\ last'.result = "NotFound"
                   /\ UNCHANGED <<capture_sessions, active_connections,
                                  conn, inbox, issued, ended>> ]_vars

\* C5 witness: a second end of an ended token answered NotFound
C5_Witness ==
    /\ last.op = "end" /\ last.result = "NotFound"
    /\ last.token \in ended

\* C6: an end of a token whose session has expired (its age at the time of
\* the end exceeds SESSION_TTL) answers NotFound, swept or not.
C6_EndOfExpiredIsNotFound ==
    ( /\ last.op = "end"
      /\ last.token \in DOMAIN issued
      /\ last.at - issued[last.token] > SESSION_TTL )
    => last.result = "NotFound"

\* C7: an upload with a token that is unknown, expired or ended answers
\* NotFound and sends nothing to any connection.
C7_UploadNotFoundSendsNothing ==
    [][ (last'.op = "upload" /\ NotLive(last'.token, last'.at))
        => (last'.result = "NotFound" /\ inbox' = inbox) ]_vars

\* C7 witness: an upload for an expired token answered NotFound while a
\* connection was still registered for that token
C7_Witness ==
    /\ last.op = "upload" /\ last.result = "NotFound"
    /\ last.token \in DOMAIN active_connections

\* what send_message reports to its caller when it sent the message to an
\* attached connection
DeliveredOutcome(token) ==
    send_message(connect(<< >>, 1, token), inbox, "m", token, TRUE).ret

\* C8: an upload whose push found no connection attached succeeds, delivers
\* to nobody, and the push reports an outcome (NoListener) that differs from
\* the one reported when the message was sent to a connection (Delivered).
C8_PushReportsNoListener ==
    ( /\ last.op = "upload" /\ last.result = "success"
      /\ \E m \in dropped : m.id = nextMsg - 1 )
    => ( /\ \A h \in Handles : \A i \in 1..Len(inbox[h]) :
               inbox[h][i].id # nextMsg - 1
         /\ last.push # DeliveredOutcome(last.token) )

\* C9: a message pushed while no connection was registered for its token
\* is in no connection's inbox, in any state: a listener that attaches
\* later does not receive it.
C9_NoReplay ==
    \A h \in Handles : \A i \in 1..Len(inbox[h]) : inbox[h][i] \notin dropped

\* C9 witness: a listener has just attached for a token for which a message
\* had been pushed to nobody
C9_Witness ==
    /\ last.op = "connect" /\ last.result = "Attached"
    /\ \E m \in dropped : m.token = last.token
    /\ Registered(active_connections, last.token) = last.handle

\* C10: when mark_attendance is called with the capture token of a live
\* session that has a listener attached and produces an attendance result
\* (match or non-match), that result has been pushed to the listener when
\* the request completes.
C10_ResultPushedToListener ==
    ( /\ last.op = "mark_attendance"
      /\ last.info \in ResultPaths
      /\ last.token \in DOMAIN active_connections
      /\ ~NotLive(last.token, last.at) )
    => \E i \in 1..Len(inbox[active_connections[last.token]]) :
          LET m == inbox[active_connections[last.token]][i] IN
          m.type = "attendance_result" /\ m.token = last.token

\* the pair (session_id, student_id) has a vector in the session cache
Cached(cache, session_id, student_id) ==
    /\ session_id \in DOMAIN cache
    /\ student_id \in DOMAIN cache[session_id]

\* C11: a call of get_or_extract_embedding for an identity that has both an
\* enrolled vector and a vector cached for the session returns the enrolled
\* vector and invokes no extraction.
C11_EnrolledBeforeCached ==
    [][ ( /\ call'.op = "resolve"
          /\ call'.student \in DOMAIN embeddings
          /\ Cached(session_cache, call'.session, call'.student) )
        => ( /\ call'.embedding = embeddings[call'.student]
             /\ call'.extractions = 0
             /\ ~call'.raised ) ]_vars

\* C11 witness: a call returned the enrolled vector of an identity whose
\* cached vector for the session is a different one
C11_Witness ==
    /\ call.op = "resolve"
    /\ call.student \in DOMAIN embeddings
    /\ Cached(session_cache, call.session, call.student)
    /\ session_cache[call.session][call.student] # embeddings[call.student]
    /\ call.embedding = embeddings[call.student]

\* C12 as stated: a call of get_or_extract_embedding for a pair whose vector
\* was extracted and cached by an earlier call, the session not cleared
\* since, returns that same vector and invokes no extraction.
C12_CachedVectorReturned ==
    [][ ( /\ call'.op = "resolve"
          /\ Cached(session_cache, call'.session, call'.student) )
        => ( /\ call'.embedding = session_cache[call'.session][call'.student]
             /\ call'.extractions = 0 ) ]_vars

\* C12 amended: a successful extraction is written to the session cache;
\* the entry stays as it is until its session is cleared; and a later call
\* for the pair invokes no extraction and returns the cached vector, unless
\* the identity has been enrolled in the meantime, in which case it returns
\* the enrolled vector.
C12_WriteThrough ==
    [][ /\ ( /\ call'.op = "resolve" /\ call'.extractions = 1
             /\ call'.embedding # NoEmbedding )
           => ( /\ Cached(session_cache', call'.session, call'.student)
                /\ session_cache'[call'.session][call'.student]
                      = call'.embedding )
        /\ \A s \in Sessions, x \in Ids :
             ( /\ Cached(session_cache, s, x)
               /\ ~(call'.op = "clear" /\ call'.session = s) )
             => ( /\ Cached(session_cache', s, x)
                  /\ session_cache'[s][x] = session_cache[s][x] )
        /\ ( /\ call'.op = "resolve"
             /\ Cached(session_cache, call'.session, call'.student) )
           => ( /\ call'.extractions = 0
                /\ call'.embedding =
                     IF call'.student \in DOMAIN embeddings
                     THEN embeddings[call'.student]
                     ELSE session_cache[call'.session][call'.student] )
      ]_vars

\* C12 witness: a call returned the cached vector of a pair without an
\* extraction
C12_Witness ==
    /\ call.op = "resolve"
    /\ call.student \notin DOMAIN embeddings
    /\ call.extractions = 0
    /\ call.embedding # NoEmbedding
    /\ Cached(session_cache, call.session, call.student)
    /\ call.embedding = session_cache[call.session][call.student]

\* a face is detected in the uploaded image
FaceDetected(image) ==
    image.decodable /\ extract_embedding(image).embedding # NoEmbedding

\* the vector a roster member is compared by in a call for the session:
\* none for a member lacking an image; otherwise its enrolled vector, else
\* the vector cached for the session, else the vector extracted from its
\* image (none when the image cannot be decoded or shows no face)
ResolvedVector(emb, cache, student, session_id) ==
    IF student.image = NoImage THEN NoEmbedding
    ELSE IF student.id \in DOMAIN emb THEN emb[student.id]
    ELSE IF Cached(cache, session_id, student.id)
    THEN cache[session_id][student.id]
    ELSE IF ~student.image.decodable THEN NoEmbedding
    ELSE extract_embedding(student.image).embedding

\* the distance from the probe of every resolved member of the roster, by
\* position in the roster
Distances(emb, cache, roster, session_id, image) ==
    [i \in {j \in DOMAIN roster :
               ResolvedVector(emb, cache, roster[j], session_id)
                 # NoEmbedding}
       |-> compute_cosine_distance(
               extract_embedding(image).embedding,
               ResolvedVector(emb, cache, roster[i], session_id))]

\* the least of the distances d (of a non-empty d)
MinDistance(d) == CHOOSE m \in {d[i] : i \in DOMAIN d} :
                      \A j \in DOMAIN d : m <= d[j]

\* the step is a call of recognize_face_from_students with a face detected
\* in the uploaded image
MatchStep == call'.op = "recognize" /\ FaceDetected(call'.uploaded)

\* the distances of the resolved members in the call of the step
StepDistances ==
    Distances(embeddings, session_cache, students, call'.session,
              call'.uploaded)

\* the distances of the resolved members in the call that led to the state
CallDistances ==
    Distances(embeddings, session_cache, students, call.session,
              call.uploaded)

\* among the members with the distances d, the first in roster order at the
\* least distance has the identity id and the name name
FirstAtMinimum(d, roster, id, name) ==
    \E i \in DOMAIN d :
        /\ id = roster[i].id
        /\ name = roster[i].nom
        /\ \A j \in DOMAIN d : d[i] <= d[j] /\ (d[j] = d[i] => i <= j)

AttainedBy(d, roster, m, id, name) ==
    \E i \in DOMAIN d :
        d[i] = m /\ id = roster[i].id /\ name = roster[i].nom

\* a best candidate with the distances d (non-empty) is accepted at exactly
\* the threshold and rejected above it
BoundaryDecision(d, roster, threshold, id, name) ==
    /\ MinDistance(d) = threshold
         => AttainedBy(d, roster, MinDistance(d), id, name)
    /\ MinDistance(d) > threshold => id = None

\* C14: with threshold T, a best candidate at distance exactly T is accepted
\* (its identity is returned) and a best candidate at a distance greater
\* than T is rejected (no identity is returned).
C14_ThresholdBoundary ==
    [][ (MatchStep /\ DOMAIN StepDistances # {})
        => BoundaryDecision(StepDistances, students,
                            settings.RECOGNITION_THRESHOLD,
                            call'.id, call'.name) ]_vars

\* C15: when the minimum distance over the resolved roster members is at
\* most the threshold, the call returns the identity and the name of a
\* member that attains that minimum.
C15_MinimumWithinThresholdSelected ==
    [][ ( /\ MatchStep
          /\ DOMAIN StepDistances # {}
          /\ MinDistance(StepDistances) <= settings.RECOGNITION_THRESHOLD )
        => AttainedBy(StepDistances, students, MinDistance(StepDistances),
                      call'.id, call'.name) ]_vars

\* C16: whenever at least one roster member is resolved, the confidence
\* returned equals 1 - d, d the minimum cosine distance over the resolved
\* members, on a match and on a non-match.
C16_ConfidenceIsOneMinusMinimum ==
    [][ (MatchStep /\ DOMAIN StepDistances # {})
        => call'.confidence = 100 - MinDistance(StepDistances) ]_vars

\* no member with the distances d is within the threshold
NoneWithin(d, threshold) == \A i \in DOMAIN d : d[i] > threshold

\* C17: for every configured threshold, the identity returned is null if
\* and only if no face was detected in the probe or no resolved roster
\* member has a distance of at most the threshold.
C17_NullIffNoFaceOrNoneWithin ==
    [][ (call'.op = "recognize" /\ ~call'.raised)
        => ( call'.id = None
             <=> ( \/ ~FaceDetected(call'.uploaded)
                   \/ NoneWithin(StepDistances,
                                 settings.RECOGNITION_THRESHOLD) ) ) ]_vars

\* C18: a call with an empty roster returns no identity and the confidence
\* 0, and invokes extraction once, for the uploaded image, and never for a
\* roster member.
C18_EmptyRoster ==
    [][ (call'.op = "recognize" /\ ~call'.raised /\ students = << >>)
        => ( /\ call'.id = None /\ call'.name = None
             /\ call'.confidence = 0
             /\ call'.extractions = 1
             /\ \A s \in DOMAIN session_cache' :
                  s \in DOMAIN session_cache
                  => session_cache'[s] = session_cache[s] ) ]_vars

\* C18 witness: a call with an empty roster and a face in the uploaded
\* image returned no identity after one extraction
C18_Witness ==
    /\ call.op = "recognize" /\ FaceDetected(call.uploaded)
    /\ students = << >>
    /\ call.id = None /\ call.confidence = 0 /\ call.extractions = 1

\* what a call of recognize_face_from_students gives its caller
Outcome(r) == <<r.id, r.name, r.confidence, r.raised>>

\* the roster without the members that lack an image, whose image cannot
\* be decoded, or whose extraction fails
WithoutFailing(emb, cache, roster, session_id) ==
    SelectSeq(roster,
        LAMBDA student :
            ~ \/ student.image = NoImage
              \/ ~student.image.decodable
              \/ ResolvedVector(emb, cache, student, session_id)
                   = NoEmbedding)

\* the roster without the members that lack an image or that have neither
\* an enrolled nor a cached vector nor an image a vector is extracted from
WithoutUnresolved(emb, cache, roster, session_id) ==
    SelectSeq(roster,
        LAMBDA student :
            ResolvedVector(emb, cache, student, session_id) # NoEmbedding)

\* C19 as stated: a roster member that lacks an image, whose image cannot
\* be decoded, or whose extraction fails is skipped: the result of a call
\* equals the result of the call on the roster with those members removed.
C19_FailingMembersSkipped ==
    [][ call'.op = "recognize"
        => Outcome(call')
             = Outcome(recognize(embeddings, session_cache,
                           settings.RECOGNITION_THRESHOLD, call'.uploaded,
                           WithoutFailing(embeddings, session_cache,
                                          students, call'.session),
                           call'.session)) ]_vars

\* C19 amended: a roster member that lacks an image, or that has neither an
\* enrolled nor a session-cached vector and whose image cannot be decoded
\* or whose extraction fails, is skipped: the result of a call equals the
\* result of the call on the roster with those members removed.
C19_UnresolvedMembersSkipped ==
    [][ call'.op = "recognize"
        => Outcome(call')
             = Outcome(recognize(embeddings, session_cache,
                           settings.RECOGNITION_THRESHOLD, call'.uploaded,
                           WithoutUnresolved(embeddings, session_cache,
                                             students, call'.session),
                           call'.session)) ]_vars

\* C19 witness: a call returned the second member of a roster whose first
\* member has an image that cannot be decoded and no enrolled vector
C19_Witness ==
    /\ call.op = "recognize" /\ FaceDetected(call.uploaded)
    /\ Len(students) = 2
    /\ students[1].image = Undecodable
    /\ students[1].id \notin DOMAIN embeddings
    /\ call.id = students[2].id

\* C20: mark_attendance always answers with a structured result object and
\* never with a bare failure, whether the outcome is a match, no face in
\* the probe, a best candidate below the threshold, or an invalid or absent
\* capture token.
C20_StructuredResultAlways ==
    (last.op = "mark_attendance" /\ last.info \in ResultPaths)
    => last.result = "result"

\* strategy k of extract_embedding succeeds on the image
StrategySucceeds(image, k) ==
    ~image.detect[k].raised /\ Len(image.detect[k].objs) > 0

\* C21: extract_embedding tries opencv strict, retinaface strict and opencv
\* relaxed in that order; a strategy is invoked only if every earlier one
\* failed, the embedding of the first success is returned without trying
\* a later strategy, and None is returned only if all three failed.
C21_StrategiesInOrder ==
    call.op = "extract"
    => /\ \A k \in 1..3 :
            k <= call.tried
            <=> \A j \in 1..(k - 1) : ~StrategySucceeds(call.uploaded, j)
       /\ StrategySucceeds(call.uploaded, call.tried)
            => call.embedding = call.uploaded.detect[call.tried].objs[1]
       /\ call.embedding = NoEmbedding
            <=> \A k \in 1..3 : ~StrategySucceeds(call.uploaded, k)

\* C21 witness: the first strategy raised, the second and the third find
\* different embeddings, and the call returned that of the second
C21_Witness ==
    /\ call.op = "extract"
    /\ call.uploaded.detect[1] = Raises
    /\ StrategySucceeds(call.uploaded, 2)
    /\ StrategySucceeds(call.uploaded, 3)
    /\ call.uploaded.detect[2] # call.uploaded.detect[3]
    /\ call.embedding = call.uploaded.detect[2].objs[1]
    /\ call.tried = 2

\* C22: when the durable write of save_embedding fails, the call returns
\* False and the in-memory enrolled map is unchanged; the in-memory entry
\* of an identity is updated only once its durable write has succeeded.
C22_FailedSaveLeavesMap ==
    [][ call'.op = "save"
        => /\ ~call'.saved => embeddings' = embeddings
           /\ call'.saved
                => /\ disk'[call'.student] = Stored(call'.embedding)
                   /\ embeddings' = Put(embeddings, call'.student,
                                        call'.embedding) ]_vars

\* C22 witness: a save of a new vector for an enrolled identity failed
\* after the file was truncated, and the map still holds the old vector
C22_Witness ==
    /\ call.op = "save" /\ ~call.saved
    /\ call.student \in DOMAIN embeddings
    /\ embeddings[call.student] # call.embedding
    /\ disk[call.student] = Unreadable

\* C23: load_embeddings never aborts on an unreadable record: after the
\* load the in-memory enrolled map holds exactly the identities whose
\* records are readable, each with its stored vector.
C23_LoadSkipsUnreadable ==
    call.op = "load"
    => /\ DOMAIN embeddings = {x \in DOMAIN disk : disk[x].readable}
       /\ \A x \in DOMAIN embeddings : disk[x] = Stored(embeddings[x])

\* C23 witness: a load over a directory with an unreadable record and a
\* readable one has the readable one in the map
C23_Witness ==
    /\ call.op = "load"
    /\ \E x \in DOMAIN disk : disk[x] = Unreadable
    /\ \E y \in DOMAIN disk : disk[y].readable /\ y \in DOMAIN embeddings

\* C24: the vectors cached for a matching session are discarded when that
\* session ends: once the pairing session of a matching session has been
\* terminated, the session cache holds no entry for the matching session.
C24_CacheDiscardedAtSessionEnd ==
    [][ ( /\ last'.op = "end" /\ last'.result = "ended"
          /\ last'.token \in DOMAIN capture_sessions )
        => capture_sessions[last'.token].session_info
             \notin DOMAIN session_cache' ]_vars

\* C25: while a match is in flight for one request, the server still
\* services other handlers: a validate, submit, end, listen or teardown that
\* is due can run before the match completes.
C25_HandlersServicedDuringMatch ==
    call.op = "matching" => ENABLED OnEventLoop(PairingHandlers)

\* no session of the store cs is expired at the clock reading n
NoneExpired(cs, n) == \A t \in DOMAIN cs : ~Expired(cs[t].created_at, n)

\* the step is a start or a token lookup (validate, fetch, upload, listen)
\* whose sweep read the clock at n1
SweepRead(n1) ==
    \/ /\ last'.op = "start"
       /\ \E p \in Payloads : start_capture_session(p, n1, last'.at)
    \/ /\ last'.op = "fetch"
       /\ fetch_capture_session(last'.token, n1, last'.at)
    \/ /\ last'.op = "validate"
       /\ validate_token(last'.token, n1, last'.at, now')
    \/ /\ last'.op = "upload"
       /\ \E ok \in BOOLEAN : upload_capture(last'.token, n1, last'.at, ok)
    \/ /\ last'.op = "listen"
       /\ websocket_endpoint(last'.token, n1, last'.at)

Kept == DOMAIN capture_sessions \cap DOMAIN capture_sessions'

\* the sessions of the store before the step that the step removes
Left == DOMAIN capture_sessions \ DOMAIN capture_sessions'

\* C27: a session is immutable once created.  Start stores the payload it is
\* given under a token that had no session; no step changes the payload or
\* created_at of a session it leaves in the store; a fetch that finds the
\* session returns the stored payload; and a session leaves the store only
\* by end of its token or when its age exceeds SESSION_TTL.
C27_SessionImmutable ==
    [][ /\ \A t \in Kept : capture_sessions'[t] = capture_sessions[t]
        /\ \A p \in StartPayloads, n1 \in Instants :
              start_capture_session(p, n1, last'.at)
              => /\ last'.token \notin DOMAIN capture_sessions
                 /\ last'.token \notin ended
                 /\ capture_sessions'[last'.token] =
                       [session_info |-> p, created_at |-> last'.at]
        /\ (last'.op = "fetch" /\ last'.result = "session")
              => /\ last'.token \in Kept
                 /\ last'.info = capture_sessions[last'.token].session_info
        /\ \A t \in Left :
              \/ last'.op = "end" /\ last'.token = t
              \/ Expired(capture_sessions[t].created_at, now')
        /\ \A t \in DOMAIN capture_sessions' \ DOMAIN capture_sessions :
              last'.op = "start" /\ last'.token = t ]_vars

\* C27 witness: a fetch at the end of the session's life, after other
\* lookups, returns the second payload, given at start
C27_Witness ==
    /\ last.op = "fetch" /\ last.result = "session"
    /\ last.info = "classY"
    /\ last.at - capture_sessions[last.token].created_at = SESSION_TTL
    /\ nextHandle > 1

\* C28: when the connection registered for a token is torn down (client
\* disconnect or receive error), the registry entry of the token is removed;
\* a push for a token without an entry reaches no connection; and an entry
\* appears only when a listener attaches.
C28_TeardownDetaches ==
    [][ /\ (/\ last'.op = "disconnect"
            /\ Registered(active_connections, last'.token) = last'.handle)
           => last'.token \notin DOMAIN active_connections'
        /\ (last'.op = "upload" /\ last'.token \notin DOMAIN active_connections)
           => inbox' = inbox
        /\ \A t \in DOMAIN active_connections' \ DOMAIN active_connections :
              /\ last'.op = "connect" /\ last'.result = "Attached"
              /\ last'.token = t
              /\ active_connections'[t] = last'.handle ]_vars

\* C28 witness: the only connection of the service, attached to a session
\* still in the store, has been torn down and the token has no entry
C28_Witness ==
    /\ last.op = "disconnect" /\ last.handle = 1
    /\ nextHandle = 2
    /\ last.token \in DOMAIN capture_sessions
    /\ last.token \notin DOMAIN active_connections

\* the step is a validate of the token, its liveness check reading the
\* clock at last'.at and its third reading at now' seconds and ms
\* milliseconds, on a session that is live at the liveness check
ValidatesLive(ms) ==
    /\ last'.op = "validate"
    /\ last'.token \in DOMAIN capture_sessions
    /\ ~Expired(capture_sessions[last'.token].created_at, last'.at)
    /\ \E n1 \in Instants :
          validate_token_at(last'.token, n1, last'.at, now', ms)

\* the age in milliseconds of the session of token at n seconds and ms
\* milliseconds
AgeMillis(token, n, ms) ==
    (n - capture_sessions[token].created_at) * Millis + ms

\* C29: validate on a live session returns valid with remaining =
\* max(0, SESSION_TTL - floor(age in seconds)), so 0 <= remaining <=
\* SESSION_TTL; and of two validates of a token, one after the other, the
\* second does not return more than the first.
C29_ValidateRemaining ==
    [][ /\ \A ms \in Fractions :
              ValidatesLive(ms)
              => /\ last'.result = "valid"
                 /\ last'.expires_in =
                       Max(0, SESSION_TTL
                              - (AgeMillis(last'.token, now', ms) \div Millis))
                 /\ 0 <= last'.expires_in
                 /\ last'.expires_in <= SESSION_TTL
        /\ (/\ last.op = "validate" /\ last.result = "valid"
            /\ last'.op = "validate" /\ last'.result = "valid"
            /\ last'.token = last.token)
           => last'.expires_in <= last.expires_in ]_vars

\* C29 witness: validate found the session live and then read the clock
\* past the end of its life: the remaining time is cut off at 0
C29_Witness ==
    /\ last.op = "validate" /\ last.result = "valid"
    /\ last.expires_in = 0
    /\ now - capture_sessions[last.token].created_at > SESSION_TTL

\* C30: once end has returned ended for a token, no connection is
\* registered for that token: a listen that was suspended between its token
\* check and its registration when the end completed is not registered
\* afterwards.
C30_NoRegistrationAfterEnd ==
    \A t \in ended : t \notin DOMAIN active_connections

\* C31: teardown of a connection removes the registry entry of its token
\* only if the entry still points to the connection torn down: the
\* disconnect of a connection that another has superseded on the token
\* leaves the registry, and so the newer connection, as it was.
C31_TeardownOfSupersededKeepsNewer ==
    [][ (/\ last'.op = "disconnect"
         /\ Registered(active_connections, last'.token) # last'.handle)
        => active_connections' = active_connections ]_vars

\* the places (connection, position) of the inboxes that hold message m
Receipts(m) ==
    {<<h, i>> \in Handles \X (1..MaxMsgs) :
        i <= Len(inbox[h]) /\ inbox[h][i] = m}

\* the messages pushed so far: those sent to a connection and those pushed
\* while nobody was attached
Pushed ==
    dropped \cup {inbox[h][i] : <<h, i>> \in
                    {p \in Handles \X (1..MaxMsgs) : p[2] <= Len(inbox[p[1]])}}

\* C32: a push is sent to one connection or to nobody, never to two: also
\* when it races an attach that replaces the connection registered for its
\* token, every message pushed is in at most one inbox, once.
C32_PushReachesAtMostOne ==
    \A m \in Pushed : Cardinality(Receipts(m)) <= 1

\* C32 witness: a message was sent to the connection registered for its
\* token, which a second connection, open on the same token, has since
\* replaced in the registry
C32_Witness ==
    \E m \in Pushed : \E h1 \in Handles, h2 \in Handles :
       /\ h1 # h2
       /\ Receipts(m) = {<<h1, 1>>}
       /\ conn[h1] = [token |-> m.token, state |-> "open"]
       /\ conn[h2] = [token |-> m.token, state |-> "open"]
       /\ Registered(active_connections, m.token) = h2

\* the connections whose inbox the step adds to
Receivers == {h \in Handles : inbox'[h] # inbox[h]}

\* C33: token isolation.  A step adds to an inbox only by pushing for a
\* token t, and then the connection that receives the message is the one
\* registered under t, listening on t, and the message is the one pushed
\* for t: no connection of another token receives it.
C33_TokenIsolation ==
    [][ \A h \in Receivers :
          /\ last'.op = "upload"
          /\ Registered(active_connections, last'.token) = h
          /\ conn[h].token = last'.token
          /\ inbox'[h] = Append(inbox[h], inbox'[h][Len(inbox'[h])])
          /\ inbox'[h][Len(inbox'[h])].token = last'.token
          /\ Receivers = {h} ]_vars

\* C33 witness: a message was pushed for one token and sent to its
\* connection while a connection of another token was registered and
\* received nothing
C33_Witness ==
    /\ last.op = "upload" /\ last.result = "success"
    /\ \E h1 \in Handles, h2 \in Handles :
          /\ Registered(active_connections, last.token) = h1
          /\ Len(inbox[h1]) = 1 /\ inbox[h1][1].token = last.token
          /\ \E t \in DOMAIN active_connections :
                t # last.token /\ active_connections[t] = h2
          /\ inbox[h2] = << >>

\* C34: clear_session_cache(s) removes the cache of session s and leaves
\* the cache of every other session and the enrolled map unchanged; it
\* changes nothing when s has no cache; and a lookup under a session for an
\* identity that is neither enrolled nor cached under that session runs an
\* extraction, whatever the other sessions have cached: a vector cached
\* under one session is not returned for a lookup under another.
C34_ClearIsPerSession ==
    [][ /\ call'.op = "clear"
           => /\ call'.session \notin DOMAIN session_cache'
              /\ \A s \in Sessions \ {call'.session} :
                    /\ s \in DOMAIN session_cache' <=> s \in DOMAIN session_cache
                    /\ s \in DOMAIN session_cache
                         => session_cache'[s] = session_cache[s]
              /\ embeddings' = embeddings
              /\ call'.session \notin DOMAIN session_cache
                   => session_cache' = session_cache
        /\ (/\ call'.op = "resolve"
            /\ ~call'.raised
            /\ call'.student \notin DOMAIN embeddings
            /\ ~Cached(session_cache, call'.session, call'.student))
           => call'.extractions = 1 ]_vars

\* C34 witness: a session has been cleared while another session holds
\* cached vectors
C34_Witness ==
    /\ call.op = "clear"
    /\ call.session \notin DOMAIN session_cache
    /\ \E s \in DOMAIN session_cache : DOMAIN session_cache[s] # {}

\* the image of the roster member with the identity x
ImageOf(x) == students[CHOOSE i \in DOMAIN students : students[i].id = x].image

\* C35: a failed extraction is never cached.  A call whose extraction finds
\* no face leaves the session cache as it was; and an entry enters the
\* cache only in the call for its session and identity whose extraction
\* succeeded, holding the vector that extraction returned.
C35_FailedExtractionNotCached ==
    [][ /\ (/\ call'.op = "resolve" /\ call'.extractions = 1
            /\ call'.embedding = NoEmbedding)
           => session_cache' = session_cache
        /\ \A s \in Sessions, x \in Ids :
              (Cached(session_cache', s, x) /\ ~Cached(session_cache, s, x))
              => /\ call'.op = "resolve" /\ call'.extractions = 1
                 /\ call'.session = s /\ call'.student = x
                 /\ session_cache'[s][x] # NoEmbedding
                 /\ session_cache'[s][x] = call'.embedding
                 /\ session_cache'[s][x] = extract_embedding(ImageOf(x)).embedding
      ]_vars

\* C35 witness: the extraction for a roster member found no face, in a
\* session that holds the cached vector of another member, and the member
\* has no entry
C35_Witness ==
    /\ call.op = "resolve" /\ call.extractions = 1
    /\ call.embedding = NoEmbedding
    /\ ~Cached(session_cache, call.session, call.student)
    /\ \E x \in Ids : Cached(session_cache, call.session, x)

\* the tokens start has issued whose session is no longer in the store
Gone == {t \in 1..Len(issued) : t \notin DOMAIN capture_sessions}

\* the handlers that take a token
TokenOps == {"fetch", "validate", "upload", "listen", "end"}

\* C36: tokens never come back.  A lookup or end that answers NotFound (a
\* listen: Rejected) for an issued token leaves no session of the token in
\* the store; a token whose session has left the store never has one again;
\* and every lookup, upload, listen and end for such a token answers
\* NotFound or is rejected.
C36_TokensNeverComeBack ==
    [][ /\ (/\ last'.op \in TokenOps
            /\ last'.token \in 1..Len(issued)
            /\ last'.result \in Negative)
           => last'.token \notin DOMAIN capture_sessions'
        /\ \A t \in Gone : t \notin DOMAIN capture_sessions'
        /\ (last'.op \in TokenOps /\ last'.token \in Gone)
           => last'.result \in Negative ]_vars

\* C36 witness: an end answers NotFound for a token that was issued and
\* never ended: its session had expired and an earlier operation removed it
C36_Witness ==
    /\ last.op = "end" /\ last.result = "NotFound"
    /\ last.token \in 1..Len(issued)
    /\ last.token \notin ended

\* the roster members within the threshold of the probe in the call of the
\* step: the identities mark_attendance may mark
WithinThreshold ==
    {students[i].id : i \in {j \in DOMAIN StepDistances :
        StepDistances[j] <= settings.RECOGNITION_THRESHOLD}}

\* C37: mark_attendance writes an attendance record only for a member of
\* the fetched roster whose distance from the probe is at most
\* RECOGNITION_THRESHOLD; with an empty roster, no face detected or no
\* member within the threshold it writes none.
C37_MarksOnlyRecognisedMembers ==
    [][ /\ students = << >> => attendance' = attendance
        /\ call'.op = "recognize"
           => IF ~FaceDetected(call'.uploaded)
              THEN attendance' = attendance
              ELSE /\ attendance' \ attendance \subseteq WithinThreshold
                   /\ NoneWithin(StepDistances,
                                 settings.RECOGNITION_THRESHOLD)
                        => attendance' = attendance ]_vars

\* C37 witness: a member of a roster of two has been marked present while
\* the other member, compared too, is beyond the threshold
C37_Witness ==
    /\ last.op = "mark_attendance" /\ last.info = "marked"
    /\ call.id \in attendance
    /\ \E i \in DOMAIN CallDistances :
          /\ students[i].id # call.id
          /\ CallDistances[i] > settings.RECOGNITION_THRESHOLD

\* C38: the durable store and the in-memory enrolled map agree: after any
\* sequence of save_embedding calls, successful or failed, load_embeddings
\* would yield the map that is in memory, so a failed save for an enrolled
\* identity does not lose its vector.
C38_DiskAgreesWithMemory == load_embeddings(disk) = embeddings

\* C39: after a run of precompute_embeddings in which no save failed, a
\* load_embeddings holds a vector for every student of the run whose image
\* shows a detectable face; and in every run each student is counted once:
\* success + skipped + failed is the number of students.
C39_PrecomputeEnrolsEveryFace ==
    call.op = "precompute"
    => /\ call.saved
          => \A i \in DOMAIN students :
                FaceDetected(students[i].image)
                => students[i].id \in DOMAIN load_embeddings(disk)
       /\ call.counts.success + call.counts.skipped + call.counts.failed
             = Len(students)

\* C40: the comparison script and the match engine decide alike at every
\* distance: when compare_two_images has reported on two images and
\* recognize_face_from_students then matches the first image against a class
\* whose only student has the second image, under the same
\* RECOGNITION_THRESHOLD, the script reports a match exactly when the engine
\* returns the student.
C40_CompareAgreesWithEngine ==
    [][(/\ call.op = "compare" /\ call.compared
        /\ call'.op = "recognize"
        /\ call'.uploaded = call.uploaded
        /\ students[1].image = call.other)
       => (call.match <=> call'.id # None)]_vars
====
